---- MODULE Spec2Model ----
(***************************************************************************)
(* ScoBro-LogBook: the relational store (database.rs) and the command      *)
(* layer (commands.rs) that drives it under one tokio Mutex.               *)
(*                                                                         *)
(* Every command is a process that waits for the AppState lock, runs its   *)
(* store statements one at a time and returns.  One action is one store    *)
(* statement (or one pure step of the handler); the handler as a whole is  *)
(* the chain of those actions between Acquire and Return.  The fields of   *)
(* a request are drawn when the handler first reads them.                  *)
(***************************************************************************)
EXTENDS Integers, Sequences, FiniteSets, Bags, TLC

\* ------------------------------------------------------------------ bounds
NumProcs == 2       \* commands in flight at once
MaxEntries == 2     \* entries rows ever inserted
MaxItems == 2       \* entry_items rows ever inserted
MaxTags == 3        \* tags rows ever inserted
MaxPeople == 2      \* people rows ever inserted
MaxJira == 1        \* jira_refs rows ever inserted
MaxMeetings == 1    \* meetings rows ever inserted
MaxAttendees == 1   \* meeting_attendees rows ever inserted
MaxActions == 1     \* meeting_actions rows ever inserted
MaxList == 2        \* length of a tags / people / jira list of a request
MaxClock == 1       \* instants Utc::now() can return

\* ------------------------------------------------------------------ inputs
Procs == 1..NumProcs
TagNames == {"A", "B", "C"}
PersonNames == {"alice", "bob"}
JiraKeys == {"J-1"}
Quote == "\""                    \* the character "
Comma == ","
LineBreak == "\n"
DefaultContent == <<"c1">>       \* a text is the sequence of its pieces
Contents == {<<"c1">>, <<"say ", Quote, "hi", Quote>>}
ProjectNames == {"p1"}
ItemTypes == {"Note"}
None == "<none>"                 \* Option::None / SQL NULL of a text column
NullId == 0                      \* SQL NULL of an id column
DefaultTagColor == "#6c757d"
DefaultProjectColor == "#0275d8"
ProjectRowNames == {"p1", "p2"}  \* names of rows of the projects table
Descriptions == {"d1"}
Colors == {"#ff0000"}
Categories == {"k1"}
\* values that carry the characters a CSV reader gives a meaning to; a text
\* is a sequence of pieces, each of them one of these three characters or a
\* run of other characters
Specials == {Quote, Comma, LineBreak}
OddContents == {<<"a", Comma, "b", LineBreak, Quote, "c">>}
OddItemTypes == {Comma}
OddProjectNames == {Quote}
OddTagNames == {Quote}
OddPersonNames == {LineBreak}
OddJiraKeys == {Comma}

\* A run is a session of the front end on one screen: the commands the screen
\* issues, the fields its requests fill in (the others are left at their
\* defaults), the rows it ever inserts per table, the commands it has in
\* flight at once, the instants its clock shows, and whether the store's
\* statements can fail under it for a reason of their own (I/O).
Limits(e, i, t, pp, j, m, a, x, pr) ==
    [entries |-> e, entry_items |-> i, tags |-> t, people |-> pp, jira_refs |-> j,
     meetings |-> m, meeting_attendees |-> a, meeting_actions |-> x, projects |-> pr]

Tagging ==
    [name |-> "tagging",
     cmds |-> {"create_entry", "update_entry_item", "get_all_entries"},
     fields |-> {"tags"}, stamps |-> {1}, procs |-> 1, ticks |-> 0, faults |-> FALSE,
     rows |-> Limits(1, MaxItems, MaxTags, 0, 0, 0, 0, 0, 0)]
Crediting ==
    [name |-> "crediting",
     cmds |-> {"create_entry", "update_entry_item", "get_all_entries"},
     fields |-> {"people", "jira"}, stamps |-> {1}, procs |-> 1, ticks |-> 0, faults |-> FALSE,
     rows |-> Limits(1, MaxItems, 0, MaxPeople, MaxJira, 0, 0, 0, 0)]
Editing ==
    [name |-> "editing",
     cmds |-> {"create_entry", "update_entry_item", "export_entries_csv"},
     fields |-> {"content", "project"}, stamps |-> {1}, procs |-> 1, ticks |-> MaxClock, faults |-> FALSE,
     rows |-> Limits(MaxEntries, MaxItems, 0, 0, 0, 0, 0, 0, 0)]
Deleting ==
    [name |-> "deleting",
     cmds |-> {"create_entry", "delete_entry", "delete_entry_item"},
     fields |-> {"tags", "people", "jira"}, stamps |-> {1}, procs |-> 1, ticks |-> 0, faults |-> FALSE,
     rows |-> Limits(MaxEntries, MaxItems, 1, 1, MaxJira, 0, 0, 0, 0)]
TagAdmin ==
    [name |-> "tag admin",
     cmds |-> {"create_entry", "update_entry_item", "create_tag", "update_tag",
               "delete_tag"},
     fields |-> {"tags"}, stamps |-> {1}, procs |-> 1, ticks |-> 0, faults |-> FALSE,
     rows |-> Limits(1, 1, MaxTags, 0, 0, 0, 0, 0, 0)]
Racing ==
    [name |-> "racing",
     cmds |-> {"create_entry", "update_entry_item"},
     fields |-> {"tags"}, stamps |-> {1}, procs |-> NumProcs, ticks |-> 0, faults |-> FALSE,
     rows |-> Limits(MaxEntries, MaxItems, 1, 0, 0, 0, 0, 0, 0)]
RacingPeople ==
    [name |-> "racing people",
     cmds |-> {"create_entry", "update_entry_item"},
     fields |-> {"people"}, stamps |-> {1}, procs |-> NumProcs, ticks |-> 0, faults |-> FALSE,
     rows |-> Limits(MaxEntries, MaxItems, 0, 1, 0, 0, 0, 0, 0)]
Reading ==
    [name |-> "reading",
     cmds |-> {"create_entry", "update_entry_item", "get_all_entries",
               "export_entries_csv"},
     fields |-> {"tags"}, stamps |-> {1}, procs |-> NumProcs, ticks |-> 0, faults |-> FALSE,
     rows |-> Limits(1, 1, 2, 0, 0, 0, 0, 0, 0)]
Meetings ==
    [name |-> "meetings",
     cmds |-> {"create_entry", "delete_entry", "delete_entry_item", "create_meeting",
               "add_meeting_attendee", "create_meeting_action", "delete_meeting"},
     fields |-> {}, stamps |-> {1}, procs |-> 1, ticks |-> 0, faults |-> FALSE,
     rows |-> Limits(1, 1, 0, 0, 0, MaxMeetings, MaxAttendees, MaxActions, 0)]

Recording ==
    [name |-> "recording",
     cmds |-> {"create_entry", "get_all_entries"},
     fields |-> {"tags", "people"}, stamps |-> {1}, procs |-> 1, ticks |-> 0, faults |-> FALSE,
     rows |-> Limits(MaxEntries, MaxItems, 2, 1, 0, 0, 0, 0, 0)]

Ordering ==
    [name |-> "ordering",
     cmds |-> {"create_entry", "get_all_entries"},
     fields |-> {}, stamps |-> 0..MaxClock, procs |-> 1, ticks |-> MaxClock, faults |-> FALSE,
     rows |-> Limits(MaxEntries, MaxItems + 1, 0, 0, 0, 0, 0, 0, 0)]

Failing ==
    [name |-> "failing",
     cmds |-> {"create_entry", "update_entry_item"},
     fields |-> {"tags", "jira"}, stamps |-> {1}, procs |-> 1, ticks |-> 0, faults |-> TRUE,
     rows |-> Limits(1, 1, 2, 0, MaxJira, 0, 0, 0, 0)]

Repository ==
    [name |-> "repository",
     cmds |-> {"create_entry", "delete_entry", "Database::create_entry_item"},
     fields |-> {"content", "project"}, stamps |-> {1}, procs |-> 1, ticks |-> 0, faults |-> FALSE,
     rows |-> Limits(MaxEntries, MaxItems, 0, 0, 0, 0, 0, 0, 0)]

TagEditing ==
    [name |-> "tag editing",
     cmds |-> {"create_tag", "update_tag"},
     fields |-> {"description", "color", "category"}, stamps |-> {1}, procs |-> 1,
     ticks |-> MaxClock, faults |-> FALSE,
     rows |-> Limits(0, 0, 2, 0, 0, 0, 0, 0, 0)]
ProjectEditing ==
    [name |-> "project editing",
     cmds |-> {"create_project", "update_project", "delete_project"},
     fields |-> {"description", "color"}, stamps |-> {1}, procs |-> 1,
     ticks |-> MaxClock, faults |-> FALSE,
     rows |-> Limits(0, 0, 0, 0, 0, 0, 0, 0, 2)]

Referencing ==
    [name |-> "referencing",
     cmds |-> {"create_entry", "update_entry_item"},
     fields |-> {"jira"}, stamps |-> {1}, procs |-> 1, ticks |-> 0, faults |-> FALSE,
     rows |-> Limits(1, MaxItems, 0, 0, 2 * MaxList, 0, 0, 0, 0)]

Exporting ==
    [name |-> "exporting",
     cmds |-> {"create_entry", "export_entries_csv"},
     fields |-> {"content", "project", "tags", "people", "jira", "punctuation"},
     stamps |-> {1}, procs |-> 1, ticks |-> 0, faults |-> FALSE,
     rows |-> Limits(1, 1, 1, 1, 1, 0, 0, 0, 0)]

\* Deletes and tag commands invoked while other commands are in flight.
Contending ==
    [name |-> "contending",
     cmds |-> {"create_entry", "delete_entry", "delete_entry_item", "create_tag",
               "update_tag", "delete_tag"},
     fields |-> {}, stamps |-> {1}, procs |-> NumProcs, ticks |-> 0, faults |-> FALSE,
     rows |-> Limits(1, 1, 1, 0, 0, 0, 0, 0, 0)]

\* The commands main.rs registers that make, remove and list items.
Pruning ==
    [name |-> "pruning",
     cmds |-> {"create_entry", "delete_entry_item", "get_all_entries"},
     fields |-> {}, stamps |-> {1}, procs |-> 1, ticks |-> 0, faults |-> FALSE,
     rows |-> Limits(1, MaxItems, 0, 0, 0, 0, 0, 0, 0)]

Workloads == {Referencing, Tagging, Crediting, Editing, Deleting, TagAdmin, Racing, RacingPeople,
              Reading, Meetings, Recording, Ordering, Failing, Repository,
              TagEditing, ProjectEditing, Exporting, Pruning, Contending}

VARIABLES
    entries,            \* table entries: rows [id, timestamp]
    entry_items,        \* table entry_items
    tags,               \* table tags
    people,             \* table people
    jira_refs,          \* table jira_refs
    item_tags,          \* table item_tags: a bag of <<entry_item_id, tag_id>>
    item_people,        \* table item_people: a bag of <<entry_item_id, person_id>>
    meetings,           \* table meetings
    meeting_attendees,  \* table meeting_attendees
    meeting_actions,    \* table meeting_actions
    projects,           \* table projects
    workload,           \* the session of the front end this run is
    returned,           \* what the commands answered so far: per name, the id
                        \* get_or_create last returned for it (NullId once the
                        \* row of that id is deleted), and the items the
                        \* successful create_entry calls made, as requested,
                        \* while only create_entry and the readers ran since
    nextId,             \* per table, the next fresh Uuid::new_v4()
    clock,              \* Utc::now()
    lock,               \* holder of the AppState mutex, 0 when free
    pc,                 \* per command process, its position in the handler
    loc                 \* per command process, the handler's local variables

store == <<entries, entry_items, tags, people, jira_refs, item_tags,
           item_people, meetings, meeting_attendees, meeting_actions, projects>>
vars == <<entries, entry_items, tags, people, jira_refs, item_tags,
          item_people, meetings, meeting_attendees, meeting_actions, projects,
          workload, returned, nextId, clock, lock, pc, loc>>

Tables == {"entries", "entry_items", "tags", "people", "jira_refs",
           "meetings", "meeting_attendees", "meeting_actions", "projects"}

\* ----------------------------------------------------------- row helpers
Ids(rows) == {r.id : r \in rows}
Row(rows, id) == CHOOSE r \in rows : r.id = id
Range(s) == {s[i] : i \in 1..Len(s)}

\* All the orders in which a query without a total ORDER BY can return the
\* rows S: every enumeration of S that is sorted by the key Lt.
Orderings(S, Lt(_, _)) ==
    {s \in [1..Cardinality(S) -> S] :
        /\ \A i, j \in 1..Cardinality(S) : i # j => s[i] # s[j]
        /\ \A i, j \in 1..Cardinality(S) : i < j => ~Lt(s[j], s[i])}

NoOrder(a, b) == FALSE


\* ------------------------------------------------ instants and their text
\* The instants of a run are numbered in the order of time: instant t is
\* t \div 4 seconds after 2024-01-01T09:00:00Z plus, by t % 4, nothing, 500 ms,
\* 500001 us or 500001001 ns.
Seconds(t) == t \div 4
Fraction(t) ==
    CASE t % 4 = 0 -> <<>>
      [] t % 4 = 1 -> <<".", "5", "0", "0">>
      [] t % 4 = 2 -> <<".", "5", "0", "0", "0", "0", "1">>
      [] OTHER -> <<".", "5", "0", "0", "0", "0", "1", "0", "0", "1">>

\* DateTime<Utc>::to_rfc3339(): the seconds with as many digits of the
\* fraction as it needs (none, 3, 6 or 9), then the offset +00:00.  The text
\* is the sequence of its characters, the date and the offset's digits in one
\* piece each.
ToRfc3339(t) ==
    <<"2024-01-01T09:00:0", ToString(Seconds(t))>> \o Fraction(t) \o <<"+", "00:00">>

\* The place of a character in the collating order of a TEXT column (BINARY).
CharCode(c) ==
    CASE c = "+" -> 43
      [] c = "." -> 46
      [] c = "0" -> 48 [] c = "1" -> 49 [] c = "2" -> 50 [] c = "3" -> 51
      [] c = "4" -> 52 [] c = "5" -> 53 [] c = "6" -> 54 [] c = "7" -> 55
      [] c = "8" -> 56 [] c = "9" -> 57
      [] OTHER -> 0

\* a < b as SQLite compares two TEXT values: by the first character in which
\* they differ, a proper prefix first.
RECURSIVE TextLess(_, _)
TextLess(a, b) ==
    IF Len(b) = 0 THEN FALSE
    ELSE IF Len(a) = 0 THEN TRUE
    ELSE IF Head(a) = Head(b) THEN TextLess(Tail(a), Tail(b))
    ELSE CharCode(Head(a)) < CharCode(Head(b))

\* ------------------------------------------------- the store's constraints
\* Faulty variant: a store that does not enforce its foreign keys.
FkUnchecked(parentRows, id) == TRUE

\* FOREIGN KEY (...) REFERENCES parent (id): the parent row must exist.
FkHolds(parentRows, id) == id \in Ids(parentRows)

\* Faulty variant: a name column declared without UNIQUE.
NameNeverTaken(rows, name, selfId) == FALSE

\* name TEXT UNIQUE NOT NULL: no other row may carry the name.
NameTaken(rows, name, selfId) == \E r \in rows : r.name = name /\ r.id # selfId

\* Faulty variant: a lookup that never finds the row.
SelectNothing(rows, name) == {}

\* SELECT ... WHERE name = ? with fetch_optional: the rows carrying the name.
SelectByName(rows, name) == {r \in rows : r.name = name}

\* Faulty variant: a plain INSERT into a join table without a primary key.
AppendLink(bag, pair) == bag (+) SetToBag({pair})

\* INSERT OR IGNORE into a table whose PRIMARY KEY is the whole pair: a pair
\* that is already there is left alone, a new pair is added once.
InsertOrIgnore(bag, pair) ==
    IF BagIn(pair, bag) THEN bag ELSE bag (+) SetToBag({pair})

\* Faulty variant: a DELETE without its WHERE clause.
RemoveEveryLink(bag, itemId) == EmptyBag

\* Faulty variant: the replacement forgets to remove the old links.
RemoveNothing(bag, itemId) == bag

\* DELETE FROM item_tags / item_people WHERE entry_item_id = itemId.
RemoveLinksOfItem(bag, itemId) ==
    [q \in {r \in DOMAIN bag : r[1] # itemId} |-> bag[q]]

\* The tag / person ids a join table links to an item.
TargetsOf(bag, itemId) == {q[2] : q \in {r \in DOMAIN bag : r[1] = itemId}}

\* Faulty variant: join tables whose item key does not cascade.
LinksKept(bag, gone) == bag

\* ON DELETE CASCADE of the join tables, for deleted items / deleted targets.
LinksWithoutItems(bag, gone) ==
    [q \in {r \in DOMAIN bag : r[1] \notin gone} |-> bag[q]]
LinksWithoutTargets(bag, gone) ==
    [q \in {r \in DOMAIN bag : r[2] \notin gone} |-> bag[q]]

\* ON DELETE CASCADE of entry_items (entry_id) and of jira_refs (entry_item_id).
ItemsWithoutEntries(items, gone) == {i \in items : i.entry_id \notin gone}
JiraWithoutItems(refs, gone) == {j \in refs : j.entry_item_id \notin gone}

\* ON DELETE SET NULL of meeting_actions.entry_item_id.
ActionsWithoutItems(actions, gone) ==
    {IF a.entry_item_id \in gone THEN [a EXCEPT !.entry_item_id = NullId] ELSE a
        : a \in actions}

\* ON DELETE CASCADE of meeting_attendees / meeting_actions (meeting_id).
WithoutMeetings(rows, gone) == {r \in rows : r.meeting_id \notin gone}

\* ------------------------------------------------------------ the handlers
NoRow == [id |-> NullId]
NoResult == [ok |-> FALSE, err |-> None, val |-> NoRow]
NoRequest == [name |-> None, description |-> None, color |-> None, category |-> None]

Blank ==
    [cmd |-> None, ts |-> 0, entry |-> NullId, item |-> NullId,
     cur |-> NoRow, req |-> NoRequest, name |-> None, got |-> NoRow, sel |-> NullId, removed |-> {}, overlapped |-> FALSE,
     tags |-> <<>>, people |-> <<>>, jira |-> <<>>, items |-> <<>>,
     rdEntries |-> <<>>, rdEntry |-> NoRow, rdItems |-> <<>>,
     rdTags |-> <<>>, rdPeople |-> <<>>, rdAcc |-> <<>>, rdOut |-> <<>>,
     result |-> NoResult]

Init ==
    /\ entries = {} /\ entry_items = {} /\ tags = {} /\ people = {}
    /\ jira_refs = {} /\ item_tags = EmptyBag /\ item_people = EmptyBag
    /\ meetings = {} /\ meeting_attendees = {} /\ meeting_actions = {}
    /\ projects = {}
    /\ workload \in Workloads
    /\ returned = [tags |-> [n \in TagNames \cup OddTagNames |-> NullId],
                   people |-> [n \in PersonNames \cup OddPersonNames |-> NullId],
                   made |-> {}]
    /\ nextId = [t \in Tables |-> 1]
    /\ clock = 0
    /\ lock = 0
    /\ pc = [p \in Procs |-> "idle"]
    /\ loc = [p \in Procs |-> Blank]

\* Uuid::new_v4(): a fresh identifier of table t.
Fresh(t) == nextId[t]
Used(t) == [nextId EXCEPT ![t] = @ + 1]

Goto(p, label) == pc' = [pc EXCEPT ![p] = label]
Ok(val) == [ok |-> TRUE, err |-> None, val |-> val]
Err(msg) == [ok |-> FALSE, err |-> msg, val |-> NoRow]

\* Faulty variant: the error is noted and the handler tries the step again.
Retry(p, msg) ==
    /\ loc' = [loc EXCEPT ![p].result = Err(msg)]
    /\ UNCHANGED pc

\* `?` on an Err: the handler returns the message, nothing else is done.
Fail(p, msg) ==
    /\ loc' = [loc EXCEPT ![p].result = Err(msg)]
    /\ Goto(p, "ret")

\* Faulty variant: create_entry inserts the entry before it looks at the
\* timestamp.
FirstStepUnparsed(c) ==
    CASE c = "create_entry" -> "ce_entry"
      [] c = "update_entry_item" -> "ue_content"
      [] c = "get_all_entries" -> "ga_entries"
      [] c = "export_entries_csv" -> "ga_entries"
      [] OTHER -> c

\* The first position of each handler after `state.lock().await`.
FirstStep(c) ==
    CASE c = "create_entry" -> "ce_parse"
      [] c = "update_entry_item" -> "ue_content"
      [] c = "get_all_entries" -> "ga_entries"
      [] c = "export_entries_csv" -> "ga_entries"
      [] OTHER -> c

\* The rows of table t the commands in flight will insert whatever they are
\* given (the single-INSERT commands), and the rows left within the bound.
InsertsInto(c) ==
    CASE c = "create_tag" -> "tags"
      [] c = "create_project" -> "projects"
      [] c = "Database::create_entry_item" -> "entry_items"
      [] c = "create_meeting" -> "meetings"
      [] c = "add_meeting_attendee" -> "meeting_attendees"
      [] c = "create_meeting_action" -> "meeting_actions"
      [] OTHER -> None
MaxRows(t) == workload.rows[t]
Reserved(t) ==
    Cardinality({q \in Procs : pc[q] # "idle" /\ pc[q] # "ret"
                               /\ InsertsInto(loc[q].cmd) = t})
Room(t) == nextId[t] + Reserved(t) <= MaxRows(t)
Affordable(c) == IF InsertsInto(c) = None THEN TRUE ELSE Room(InsertsInto(c))

\* Some other command is in flight: invoked and not yet returned.
InFlight(p) == \E q \in Procs \ {p} : pc[q] # "idle"

\* A command is invoked: it starts to wait for the lock.
Invoke(p) ==
    /\ pc[p] = "idle"
    /\ p <= workload.procs
    /\ \E c \in workload.cmds :
        /\ Affordable(c)
        /\ loc' = [loc EXCEPT ![p] = [Blank EXCEPT !.cmd = c,
                                                  !.overlapped = InFlight(p)]]
    /\ Goto(p, "lock")
    /\ UNCHANGED <<store, nextId, workload, returned, clock, lock>>

\* Faulty variant: handlers that do not wait for the mutex.
LockAlwaysFree(holder) == TRUE

\* tokio::sync::Mutex: lock() completes only while nobody holds the mutex.
LockFree(holder) == holder = 0

\* The commands that leave alone every row that is there already.
Additive == {"create_entry", "get_all_entries", "export_entries_csv"}

Acquire(p) ==
    /\ pc[p] = "lock"
    /\ LockFree(lock)
    /\ lock' = p
    /\ Goto(p, FirstStep(loc[p].cmd))
    /\ returned' = IF loc[p].cmd \in Additive THEN returned
                   ELSE [returned EXCEPT !.made = {}]
    /\ UNCHANGED <<store, nextId, workload, clock, loc>>

\* A faulty variant of the return: an error return keeps the guard.
ReturnKeepingGuardOnError(p) ==
    /\ pc[p] = "ret"
    /\ lock' = IF lock = p /\ loc[p].result.ok THEN 0 ELSE lock
    /\ Goto(p, "idle")
    /\ loc' = [loc EXCEPT ![p] = Blank]
    /\ UNCHANGED <<store, nextId, workload, returned, clock>>

\* The handler returns: the MutexGuard is dropped, the response is delivered.
Return(p) ==
    /\ pc[p] = "ret"
    /\ lock' = IF lock = p THEN 0 ELSE lock
    /\ Goto(p, "idle")
    /\ loc' = [loc EXCEPT ![p] = Blank]
    /\ UNCHANGED <<store, nextId, workload, returned, clock>>

\* Time passes between two reads of Utc::now().
Tick ==
    /\ clock < workload.ticks
    /\ clock' = clock + 1
    /\ UNCHANGED <<workload, returned, store, nextId, lock, pc, loc>>

\* ---------------------------------------------------------- create_entry
\* DateTime::parse_from_rfc3339(&request.timestamp)
CeParse(p) ==
    /\ pc[p] = "ce_parse"
    /\ \/ \E ts \in workload.stamps :
            /\ Room("entries")
            /\ loc' = [loc EXCEPT ![p].ts = ts]
            /\ Goto(p, "ce_entry")
       \/ Fail(p, "Invalid timestamp")
    /\ UNCHANGED <<store, nextId, workload, returned, clock, lock>>

\* Database::create_entry
CeCreateEntry(p) ==
    /\ pc[p] = "ce_entry"
    /\ entries' = entries \cup {[id |-> Fresh("entries"), timestamp |-> loc[p].ts]}
    /\ nextId' = Used("entries")
    /\ loc' = [loc EXCEPT ![p].entry = Fresh("entries")]
    /\ Goto(p, "ce_loop")
    /\ UNCHANGED <<entry_items, tags, people, jira_refs, item_tags, item_people,
                   meetings, meeting_attendees, meeting_actions, projects, workload, returned, clock, lock>>

\* the values a request carries in a field the session fills in or leaves
Uses(f) == f \in workload.fields
Odd(values) == IF Uses("punctuation") THEN values ELSE {}
ContentInputs == IF Uses("content") THEN Contents \cup Odd(OddContents) ELSE {DefaultContent}
ProjectInputs ==
    IF Uses("project") THEN {None} \cup ProjectNames \cup Odd(OddProjectNames) ELSE {None}
ItemTypeInputs == ItemTypes \cup Odd(OddItemTypes)
TagNameInputs == IF Uses("punctuation") THEN {"A"} \cup OddTagNames ELSE TagNames
PersonNameInputs == IF Uses("punctuation") THEN {"alice"} \cup OddPersonNames ELSE PersonNames
JiraKeyInputs == JiraKeys \cup Odd(OddJiraKeys)

NewItem(id, entryId, type, content, project) ==
    [id |-> id, entry_id |-> entryId, item_type |-> type, content |-> content,
     project |-> project, created_at |-> clock, updated_at |-> clock]

\* Database::create_entry_item, for the next item of request.items
CeCreateItem(p) ==
    /\ pc[p] = "ce_loop"
    /\ Room("entry_items")
    /\ \E type \in ItemTypeInputs, content \in ContentInputs, project \in ProjectInputs :
        LET row == NewItem(Fresh("entry_items"), loc[p].entry, type, content, project) IN
        IF FkHolds(entries, loc[p].entry)
        THEN /\ entry_items' = entry_items \cup {row}
             /\ nextId' = Used("entry_items")
             /\ loc' = [loc EXCEPT ![p].item = row.id, ![p].cur = row,
                                   ![p].tags = <<>>, ![p].people = <<>>, ![p].jira = <<>>]
             /\ Goto(p, "tag_next")
        ELSE /\ Fail(p, "Failed to create entry item")
             /\ UNCHANGED <<entry_items, nextId>>
    /\ UNCHANGED <<entries, tags, people, jira_refs, item_tags, item_people,
                   meetings, meeting_attendees, meeting_actions, projects, workload, returned, clock, lock>>

\* The error of an INSERT that violates a FOREIGN KEY clause.
ForeignKeyFailed == "FOREIGN KEY constraint failed"

\* Database::create_entry_item called by a user of the repository, with any
\* entry id
DbCreateEntryItem(p) ==
    /\ pc[p] = "Database::create_entry_item"
    /\ \E e \in 1..MaxRows("entries"), type \in ItemTypeInputs, content \in ContentInputs,
          project \in ProjectInputs :
        LET row == NewItem(Fresh("entry_items"), e, type, content, project) IN
        IF FkHolds(entries, e)
        THEN /\ entry_items' = entry_items \cup {row}
             /\ nextId' = Used("entry_items")
             /\ loc' = [loc EXCEPT ![p].entry = e, ![p].result = Ok(row)]
        ELSE /\ loc' = [loc EXCEPT ![p].entry = e, ![p].result = Err(ForeignKeyFailed)]
             /\ UNCHANGED <<entry_items, nextId>>
    /\ Goto(p, "ret")
    /\ UNCHANGED <<entries, tags, people, jira_refs, item_tags, item_people,
                   meetings, meeting_attendees, meeting_actions, projects, workload, returned, clock, lock>>

\* Faulty variant: an ItemResponse that leaves the people out.
ResponseWithoutPeople(l) ==
    [id |-> l.cur.id, item_type |-> l.cur.item_type, content |-> l.cur.content,
     project |-> l.cur.project, tags |-> l.tags, jira |-> l.jira, people |-> <<>>]

\* The ItemResponse create_entry builds from the request's own lists.
RequestItemResponse(l) ==
    [id |-> l.cur.id, item_type |-> l.cur.item_type, content |-> l.cur.content,
     project |-> l.cur.project, tags |-> l.tags, jira |-> l.jira, people |-> l.people]

\* The items of a successful create_entry, with the names its request gave them.
Made(entryId, items) ==
    {[entry |-> entryId, item |-> items[i].id,
      tags |-> {items[i].tags[k] : k \in 1..Len(items[i].tags)},
      people |-> {items[i].people[k] : k \in 1..Len(items[i].people)}]
        : i \in 1..Len(items)}

\* request.items is exhausted: Ok(EntryResponse)
CeFinish(p) ==
    /\ pc[p] = "ce_loop"
    /\ loc' = [loc EXCEPT ![p].result =
                  Ok([id |-> loc[p].entry, timestamp |-> loc[p].ts, items |-> loc[p].items])]
    /\ returned' = [returned EXCEPT !.made = @ \cup Made(loc[p].entry, loc[p].items)]
    /\ Goto(p, "ret")
    /\ UNCHANGED <<store, nextId, workload, clock, lock>>

\* ------------------------------------ the tag / people / jira loops of an item
\* (shared by create_entry, lines 125-150, and update_entry_item, 235-284)
GetOrCreateMsg(c, what) ==
    IF c = "create_entry" THEN "Failed to create " \o what
    ELSE "Failed to get or create " \o what

NewTag(id, name, description, color, category) ==
    [id |-> id, name |-> name, description |-> description, color |-> color,
     category |-> category, created_at |-> clock, updated_at |-> clock]

NewPerson(id, name) == [id |-> id, name |-> name]

\* Database::get_or_create_tag, the SELECT ... WHERE name = ? for the next
\* name of the item's tags list
TagSelect(p) ==
    /\ pc[p] = "tag_next"
    /\ Uses("tags")
    /\ Len(loc[p].tags) < MaxList
    /\ \E n \in TagNameInputs :
        /\ SelectByName(tags, n) # {} \/ Room("tags")
        /\ IF SelectByName(tags, n) # {}
           THEN \E t \in SelectByName(tags, n) :
                    /\ loc' = [loc EXCEPT ![p].tags = Append(@, n), ![p].name = n,
                                          ![p].got = t]
                    /\ returned' = [returned EXCEPT !.tags[n] = t.id]
                    /\ Goto(p, "tag_link")
           ELSE /\ loc' = [loc EXCEPT ![p].tags = Append(@, n), ![p].name = n]
                /\ UNCHANGED returned
                /\ Goto(p, "tag_ins")
    /\ UNCHANGED <<store, nextId, workload, clock, lock>>

\* Database::get_or_create_tag, the INSERT INTO tags after a SELECT that found
\* no row
TagInsert(p) ==
    /\ pc[p] = "tag_ins"
    /\ LET row == NewTag(Fresh("tags"), loc[p].name, None, DefaultTagColor, None) IN
       IF NameTaken(tags, loc[p].name, NullId)
       THEN /\ Fail(p, GetOrCreateMsg(loc[p].cmd, "tag"))
            /\ UNCHANGED <<tags, nextId, returned>>
       ELSE /\ tags' = tags \cup {row}
            /\ nextId' = Used("tags")
            /\ loc' = [loc EXCEPT ![p].got = row]
            /\ returned' = [returned EXCEPT !.tags[loc[p].name] = row.id]
            /\ Goto(p, "tag_link")
    /\ UNCHANGED <<entries, entry_items, people, jira_refs, item_tags, item_people,
                   meetings, meeting_attendees, meeting_actions, projects, workload, clock, lock>>

\* Database::link_item_tag
TagLink(p) ==
    /\ pc[p] = "tag_link"
    /\ IF FkHolds(entry_items, loc[p].item) /\ FkHolds(tags, loc[p].got.id)
       THEN /\ item_tags' = InsertOrIgnore(item_tags, <<loc[p].item, loc[p].got.id>>)
            /\ Goto(p, "tag_next")
            /\ loc' = [loc EXCEPT ![p].name = None, ![p].got = NoRow]
       ELSE /\ Fail(p, "Failed to link tag")
            /\ UNCHANGED item_tags
    /\ UNCHANGED <<entries, entry_items, tags, people, jira_refs, item_people,
                   meetings, meeting_attendees, meeting_actions, nextId, projects, workload, returned, clock, lock>>

\* the tags list is exhausted; of the tags update_entry_item unlinked, the
\* handler's record keeps those of an item it left without any tag
TagsDone(p) ==
    /\ pc[p] = "tag_next"
    /\ IF loc[p].cmd = "create_entry"
       THEN /\ Goto(p, "person_next")
            /\ UNCHANGED loc
       ELSE /\ Goto(p, "ue_people")
            /\ loc' = [loc EXCEPT ![p].tags = <<>>,
                                  ![p].removed = IF Len(loc[p].tags) = 0 THEN @ ELSE {}]
    /\ UNCHANGED <<store, nextId, workload, returned, clock, lock>>

\* Database::get_or_create_person, the SELECT ... WHERE name = ?
PersonSelect(p) ==
    /\ pc[p] = "person_next"
    /\ Uses("people")
    /\ Len(loc[p].people) < MaxList
    /\ \E n \in PersonNameInputs :
        /\ SelectByName(people, n) # {} \/ Room("people")
        /\ IF SelectByName(people, n) # {}
           THEN \E t \in SelectByName(people, n) :
                    /\ loc' = [loc EXCEPT ![p].people = Append(@, n), ![p].name = n,
                                          ![p].got = t]
                    /\ returned' = [returned EXCEPT !.people[n] = t.id]
                    /\ Goto(p, "person_link")
           ELSE /\ loc' = [loc EXCEPT ![p].people = Append(@, n), ![p].name = n]
                /\ UNCHANGED returned
                /\ Goto(p, "person_ins")
    /\ UNCHANGED <<store, nextId, workload, clock, lock>>

\* Database::get_or_create_person, the INSERT INTO people
PersonInsert(p) ==
    /\ pc[p] = "person_ins"
    /\ LET row == NewPerson(Fresh("people"), loc[p].name) IN
       IF NameTaken(people, loc[p].name, NullId)
       THEN /\ Fail(p, GetOrCreateMsg(loc[p].cmd, "person"))
            /\ UNCHANGED <<people, nextId, returned>>
       ELSE /\ people' = people \cup {row}
            /\ nextId' = Used("people")
            /\ loc' = [loc EXCEPT ![p].got = row]
            /\ returned' = [returned EXCEPT !.people[loc[p].name] = row.id]
            /\ Goto(p, "person_link")
    /\ UNCHANGED <<entries, entry_items, tags, jira_refs, item_tags, item_people,
                   meetings, meeting_attendees, meeting_actions, projects, workload, clock, lock>>

\* Database::link_item_person
PersonLink(p) ==
    /\ pc[p] = "person_link"
    /\ IF FkHolds(entry_items, loc[p].item) /\ FkHolds(people, loc[p].got.id)
       THEN /\ item_people' = InsertOrIgnore(item_people, <<loc[p].item, loc[p].got.id>>)
            /\ Goto(p, "person_next")
            /\ loc' = [loc EXCEPT ![p].name = None, ![p].got = NoRow]
       ELSE /\ Fail(p, "Failed to link person")
            /\ UNCHANGED item_people
    /\ UNCHANGED <<entries, entry_items, tags, people, jira_refs, item_tags,
                   meetings, meeting_attendees, meeting_actions, nextId, projects, workload, returned, clock, lock>>

\* the people list is exhausted
PeopleDone(p) ==
    /\ pc[p] = "person_next"
    /\ IF loc[p].cmd = "create_entry"
       THEN /\ Goto(p, "jira_next")
            /\ UNCHANGED loc
       ELSE /\ Goto(p, "ue_jira")
            /\ loc' = [loc EXCEPT ![p].people = <<>>]
    /\ UNCHANGED <<store, nextId, workload, returned, clock, lock>>

\* Database::create_jira_ref, for the next key of the item's jira list
JiraCreate(p) ==
    /\ pc[p] = "jira_next"
    /\ Uses("jira")
    /\ Len(loc[p].jira) < MaxList
    /\ Room("jira_refs")
    /\ \E k \in JiraKeyInputs :
        IF FkHolds(entry_items, loc[p].item)
        THEN /\ jira_refs' = jira_refs \cup
                   {[id |-> Fresh("jira_refs"), entry_item_id |-> loc[p].item,
                     jira_key |-> k]}
             /\ nextId' = Used("jira_refs")
             /\ loc' = [loc EXCEPT ![p].jira = Append(@, k)]
             /\ Goto(p, "jira_next")
        ELSE /\ Fail(p, "Failed to create Jira ref")
             /\ UNCHANGED <<jira_refs, nextId>>
    /\ UNCHANGED <<entries, entry_items, tags, people, item_tags, item_people,
                   meetings, meeting_attendees, meeting_actions, projects, workload, returned, clock, lock>>

\* the jira list is exhausted: create_entry pushes the ItemResponse and turns
\* to the next item, update_entry_item goes on to read the item back
JiraDone(p) ==
    /\ pc[p] = "jira_next"
    /\ IF loc[p].cmd = "create_entry"
       THEN /\ loc' = [loc EXCEPT ![p].items = Append(@, RequestItemResponse(loc[p]))]
            /\ Goto(p, "ce_loop")
       ELSE /\ loc' = [loc EXCEPT ![p].jira = <<>>]
            /\ Goto(p, "ge_item")
    /\ UNCHANGED <<store, nextId, workload, returned, clock, lock>>

\* ------------------------------------------------------- store failures
\* The sqlx::Error of a statement that fails for a reason of the store's own.
IoError == ": I/O error"

\* The message the handler of p wraps the error of its next store statement
\* in, None where it has no store statement to run next.
StepMsg(p) ==
    LET c == loc[p].cmd
        reads == IF c = "update_entry_item" THEN "Failed to get updated entry item"
                 ELSE "Failed to get entries"
    IN
    CASE pc[p] = "ce_entry" -> "Failed to create entry"
      [] pc[p] = "ce_loop" -> "Failed to create entry item"
      [] pc[p] = "tag_next" ->
            IF Uses("tags") /\ Len(loc[p].tags) < MaxList THEN GetOrCreateMsg(c, "tag")
            ELSE None
      [] pc[p] = "tag_ins" -> GetOrCreateMsg(c, "tag")
      [] pc[p] = "tag_link" -> "Failed to link tag"
      [] pc[p] = "person_next" ->
            IF Uses("people") /\ Len(loc[p].people) < MaxList
            THEN GetOrCreateMsg(c, "person") ELSE None
      [] pc[p] = "person_ins" -> GetOrCreateMsg(c, "person")
      [] pc[p] = "person_link" -> "Failed to link person"
      [] pc[p] = "jira_next" ->
            IF Uses("jira") /\ Len(loc[p].jira) < MaxList THEN "Failed to create Jira ref"
            ELSE None
      [] pc[p] = "ue_content" ->
            IF Uses("content") THEN "Failed to update entry item content" ELSE None
      [] pc[p] = "ue_project" ->
            IF Uses("project") THEN "Failed to update entry item project" ELSE None
      [] pc[p] = "ue_tags" -> IF Uses("tags") THEN "Failed to remove existing tags" ELSE None
      [] pc[p] = "ue_people" ->
            IF Uses("people") THEN "Failed to remove existing people" ELSE None
      [] pc[p] = "ue_jira" ->
            IF Uses("jira") THEN "Failed to remove existing Jira refs" ELSE None
      [] pc[p] \in {"ge_item", "ge_entry", "gi_items", "gi_tags", "gi_people", "gi_jira",
                    "ga_entries"} -> reads
      [] OTHER -> None

\* The next store statement of the handler of p fails: the statement writes
\* nothing, and `.map_err(...)?` returns the wrapped error.
StoreFault(p) ==
    /\ workload.faults
    /\ StepMsg(p) # None
    /\ Fail(p, StepMsg(p) \o IoError)
    /\ UNCHANGED <<store, nextId, workload, returned, clock, lock>>

\* ------------------------------------------------------ update_entry_item
ItemIdInputs == 1..workload.rows["entry_items"]   \* entry_item_id of a request

\* UPDATE entry_items SET content = ?, updated_at = ? WHERE id = ?
UpdateContent(items, id, content) ==
    {IF i.id = id THEN [i EXCEPT !.content = content, !.updated_at = clock] ELSE i
        : i \in items}

\* UPDATE entry_items SET project = ?, updated_at = ? WHERE id = ?
UpdateProject(items, id, project) ==
    {IF i.id = id THEN [i EXCEPT !.project = project, !.updated_at = clock] ELSE i
        : i \in items}

\* if let Some(content) = updates.content: Database::update_entry_item_content
UeContent(p) ==
    /\ pc[p] = "ue_content"
    /\ \E id \in ItemIdInputs :
        /\ \/ \E c \in ContentInputs \ {DefaultContent} :
                 entry_items' = UpdateContent(entry_items, id, c)
           \/ UNCHANGED entry_items
        /\ loc' = [loc EXCEPT ![p].item = id]
    /\ Goto(p, "ue_project")
    /\ UNCHANGED <<entries, tags, people, jira_refs, item_tags, item_people,
                   meetings, meeting_attendees, meeting_actions, nextId, projects, workload, returned, clock, lock>>

\* if let Some(project) = updates.project: Database::update_entry_item_project
UeProject(p) ==
    /\ pc[p] = "ue_project"
    /\ \E pr \in ProjectInputs :
        /\ entry_items' = IF pr = None THEN entry_items
                          ELSE UpdateProject(entry_items, loc[p].item, pr)
    /\ Goto(p, "ue_tags")
    /\ UNCHANGED <<loc, entries, tags, people, jira_refs, item_tags, item_people,
                   meetings, meeting_attendees, meeting_actions, nextId, projects, workload, returned, clock, lock>>

\* if let Some(tags) = updates.tags: Database::remove_item_tags, then the loop
UeTags(p) ==
    /\ pc[p] = "ue_tags"
    /\ \/ /\ Uses("tags")
          /\ item_tags' = RemoveLinksOfItem(item_tags, loc[p].item)
          /\ loc' = [loc EXCEPT ![p].removed = TargetsOf(item_tags, loc[p].item)]
          /\ Goto(p, "tag_next")
       \/ /\ Goto(p, "ue_people")
          /\ UNCHANGED <<item_tags, loc>>
    /\ UNCHANGED <<entries, entry_items, tags, people, jira_refs, item_people,
                   meetings, meeting_attendees, meeting_actions, nextId, projects, workload, returned, clock, lock>>

\* if let Some(people) = updates.people: Database::remove_item_people
UePeople(p) ==
    /\ pc[p] = "ue_people"
    /\ \/ /\ Uses("people")
          /\ item_people' = RemoveLinksOfItem(item_people, loc[p].item)
          /\ UNCHANGED loc
          /\ Goto(p, "person_next")
       \/ /\ Goto(p, "ue_jira")
          /\ UNCHANGED <<item_people, loc>>
    /\ UNCHANGED <<entries, entry_items, tags, people, jira_refs, item_tags,
                   meetings, meeting_attendees, meeting_actions, nextId, projects, workload, returned, clock, lock>>

\* if let Some(jira_refs) = updates.jira: Database::remove_item_jira_refs
UeJira(p) ==
    /\ pc[p] = "ue_jira"
    /\ \/ /\ Uses("jira")
          /\ jira_refs' = {j \in jira_refs : j.entry_item_id # loc[p].item}
          /\ UNCHANGED loc
          /\ Goto(p, "jira_next")
       \/ /\ Goto(p, "ge_item")
          /\ UNCHANGED <<jira_refs, loc>>
    /\ UNCHANGED <<entries, entry_items, tags, people, item_tags, item_people,
                   meetings, meeting_attendees, meeting_actions, nextId, projects, workload, returned, clock, lock>>

\* Database::get_entry_with_items: SELECT entry_id FROM entry_items WHERE id = ?
GeItem(p) ==
    /\ pc[p] = "ge_item"
    /\ IF \E i \in entry_items : i.id = loc[p].item
       THEN /\ loc' = [loc EXCEPT ![p].entry = Row(entry_items, loc[p].item).entry_id]
            /\ Goto(p, "ge_entry")
       ELSE Fail(p, "Failed to get updated entry item")
    /\ UNCHANGED <<store, nextId, workload, returned, clock, lock>>

\* Database::get_entry_with_items: SELECT ... FROM entries WHERE id = ?
GeEntry(p) ==
    /\ pc[p] = "ge_entry"
    /\ IF \E e \in entries : e.id = loc[p].entry
       THEN /\ loc' = [loc EXCEPT ![p].rdEntry = Row(entries, loc[p].entry)]
            /\ Goto(p, "gi_items")
       ELSE Fail(p, "Failed to get updated entry item")
    /\ UNCHANGED <<store, nextId, workload, returned, clock, lock>>

\* ------------------------------------------- get_entry_items_with_metadata
ByCreatedAt(a, b) == TextLess(ToRfc3339(a.created_at), ToRfc3339(b.created_at))

\* Faulty variant: a JOIN that forgets WHERE it.entry_item_id = ?.
JoinAllRows(bag, itemId, targets) ==
    {[row |-> t, n |-> 1] : t \in {x \in targets : \E q \in DOMAIN bag : q[2] = x.id}}

\* the rows a JOIN of a join table with its target table yields for one item
JoinRows(bag, itemId, targets) ==
    UNION {{[row |-> t, n |-> k] : k \in 1..CopiesIn(<<itemId, t.id>>, bag)}
              : t \in targets}

Rows(o) == [i \in 1..Len(o) |-> o[i].row]

\* SELECT ... FROM entry_items WHERE entry_id = ? ORDER BY created_at
GiItems(p) ==
    /\ pc[p] = "gi_items"
    /\ \E o \in Orderings({i \in entry_items : i.entry_id = loc[p].rdEntry.id},
                          ByCreatedAt) :
        /\ loc' = [loc EXCEPT ![p].rdItems = o, ![p].rdAcc = <<>>]
        /\ Goto(p, IF Len(o) = 0 THEN "gi_done" ELSE "gi_tags")
    /\ UNCHANGED <<store, nextId, workload, returned, clock, lock>>

\* get_item_tags: SELECT ... FROM tags t JOIN item_tags it ... (no ORDER BY)
GiTags(p) ==
    /\ pc[p] = "gi_tags"
    /\ \E o \in Orderings(JoinRows(item_tags, Head(loc[p].rdItems).id, tags), NoOrder) :
        loc' = [loc EXCEPT ![p].rdTags = Rows(o)]
    /\ Goto(p, "gi_people")
    /\ UNCHANGED <<store, nextId, workload, returned, clock, lock>>

\* get_item_people: SELECT ... FROM people p JOIN item_people ip ... (no ORDER BY)
GiPeople(p) ==
    /\ pc[p] = "gi_people"
    /\ \E o \in Orderings(JoinRows(item_people, Head(loc[p].rdItems).id, people), NoOrder) :
        loc' = [loc EXCEPT ![p].rdPeople = Rows(o)]
    /\ Goto(p, "gi_jira")
    /\ UNCHANGED <<store, nextId, workload, returned, clock, lock>>

\* get_item_jira_refs: SELECT ... FROM jira_refs WHERE entry_item_id = ?, and
\* the push of the EntryItemWithMetadata
GiJira(p) ==
    /\ pc[p] = "gi_jira"
    /\ \E o \in Orderings({j \in jira_refs : j.entry_item_id = Head(loc[p].rdItems).id},
                          NoOrder) :
        loc' = [loc EXCEPT
                   ![p].rdAcc = Append(@, [item |-> Head(loc[p].rdItems),
                                           tags |-> loc[p].rdTags,
                                           people |-> loc[p].rdPeople,
                                           jira_refs |-> o]),
                   ![p].rdItems = Tail(@), ![p].rdTags = <<>>, ![p].rdPeople = <<>>]
    /\ Goto(p, IF Len(loc[p].rdItems) = 1 THEN "gi_done" ELSE "gi_tags")
    /\ UNCHANGED <<store, nextId, workload, returned, clock, lock>>

\* The ItemResponse the handlers build from an EntryItemWithMetadata.
ItemResponse(m) ==
    [id |-> m.item.id, item_type |-> m.item.item_type, content |-> m.item.content,
     project |-> m.item.project,
     tags |-> [i \in 1..Len(m.tags) |-> m.tags[i].name],
     jira |-> [i \in 1..Len(m.jira_refs) |-> m.jira_refs[i].jira_key],
     people |-> [i \in 1..Len(m.people) |-> m.people[i].name]]

\* The item of the aggregated entry that update_entry_item answers with.
RespondedItem(items) == items[1]

\* update_entry_item, lines 291-303: entry_with_items.items.first()
UeRespond(p) ==
    /\ pc[p] = "gi_done"
    /\ loc[p].cmd = "update_entry_item"
    /\ IF Len(loc[p].rdAcc) > 0
       THEN loc' = [loc EXCEPT ![p].result = Ok(ItemResponse(RespondedItem(loc[p].rdAcc)))]
       ELSE loc' = [loc EXCEPT ![p].result = Err("Entry item not found")]
    /\ Goto(p, "ret")
    /\ UNCHANGED <<store, nextId, workload, returned, clock, lock>>

\* -------------------------------------------------------- get_all_entries
\* Faulty variant: ORDER BY timestamp, ascending.
ByTimestampAsc(a, b) == TextLess(ToRfc3339(a.timestamp), ToRfc3339(b.timestamp))

ByTimestampDesc(a, b) == TextLess(ToRfc3339(b.timestamp), ToRfc3339(a.timestamp))

\* get_all_entries_with_items: SELECT ... FROM entries ORDER BY timestamp DESC
GaEntries(p) ==
    /\ pc[p] = "ga_entries"
    /\ \E o \in Orderings(entries, ByTimestampDesc) :
        loc' = [loc EXCEPT ![p].rdEntries = o, ![p].rdOut = <<>>]
    /\ Goto(p, "ga_next")
    /\ UNCHANGED <<store, nextId, workload, returned, clock, lock>>

EntryResponse(e) ==
    [id |-> e.entry.id, timestamp |-> e.entry.timestamp,
     items |-> [i \in 1..Len(e.items) |-> ItemResponse(e.items[i])]]

\* ---------------------------------------------------- export_entries_csv
\* Faulty variant: only the first name is written.
FirstOnly(names, sep) == IF Len(names) = 0 THEN <<>> ELSE <<names[1]>>

\* Vec<String>::join(sep), as the sequence of the pieces of the joined text
RECURSIVE Join(_, _)
Join(names, sep) ==
    IF Len(names) = 0 THEN <<>>
    ELSE IF Len(names) = 1 THEN <<names[1]>>
    ELSE <<names[1], sep>> \o Join(Tail(names), sep)

\* Faulty variant: the content is written as it is.
Unescaped(text) == text

\* content.replace("\"", "\"\"")
RECURSIVE EscapeQuotes(_)
EscapeQuotes(text) ==
    IF Len(text) = 0 THEN <<>>
    ELSE (IF Head(text) = Quote THEN <<Quote, Quote>> ELSE <<Head(text)>>)
             \o EscapeQuotes(Tail(text))

\* project.unwrap_or_default()
UnwrapOrDefault(project) == IF project = None THEN "" ELSE project

\* timestamp.format("%Y-%m-%d") and timestamp.format("%H:%M:%S") of an instant
FormatDate(ts) == "date-" \o ToString(ts)
FormatTime(ts) == "time-" \o ToString(ts)

CsvHeader ==
    <<"Date", Comma, "Time", Comma, "Type", Comma, "Content", Comma, "Project", Comma,
      "Tags", Comma, "Jira", Comma, "People", LineBreak>>

\* format!("{},{},{},\"{}\",\"{}\",\"{}\",\"{}\",\"{}\"\n", ...) for one item
CsvLine(entry, m) ==
    LET r == ItemResponse(m) IN
    <<FormatDate(entry.timestamp), ",", FormatTime(entry.timestamp), ",",
      r.item_type, ",", Quote>> \o EscapeQuotes(r.content)
    \o <<Quote, ",", Quote, UnwrapOrDefault(r.project), Quote, ",", Quote>>
    \o Join(r.tags, ";") \o <<Quote, ",", Quote>>
    \o Join(r.jira, ";") \o <<Quote, ",", Quote>>
    \o Join(r.people, ";") \o <<Quote, "\n">>

\* Faulty variant: one row per entry, made of its first item.
CsvFirstItem(entry, items) ==
    IF Len(items) = 0 THEN <<>> ELSE CsvLine(entry, Head(items))

RECURSIVE CsvItems(_, _)
CsvItems(entry, items) ==
    IF Len(items) = 0 THEN <<>>
    ELSE CsvLine(entry, Head(items)) \o CsvItems(entry, Tail(items))

RECURSIVE CsvEntries(_)
CsvEntries(out) ==
    IF Len(out) = 0 THEN <<>>
    ELSE CsvItems(Head(out).entry, Head(out).items) \o CsvEntries(Tail(out))

\* the commands that answer with the aggregated entries
Readers == {"get_all_entries", "export_entries_csv"}

\* what a reader answers with once every entry is aggregated
ReaderResponse(c, out) ==
    IF c = "export_entries_csv" THEN CsvHeader \o CsvEntries(out)
    ELSE [i \in 1..Len(out) |-> EntryResponse(out[i])]

\* the `for row in entries` loop head of get_all_entries_with_items, and the
\* handler's map of the finished aggregation to its response
GaNext(p) ==
    /\ pc[p] = "ga_next"
    /\ IF Len(loc[p].rdEntries) = 0
       THEN /\ loc' = [loc EXCEPT ![p].result =
                          Ok(ReaderResponse(loc[p].cmd, loc[p].rdOut))]
            /\ Goto(p, "ret")
       ELSE /\ loc' = [loc EXCEPT ![p].rdEntry = Head(loc[p].rdEntries)]
            /\ Goto(p, "gi_items")
    /\ UNCHANGED <<store, nextId, workload, returned, clock, lock>>

\* result.push(EntryWithItems { entry, items })
GaPush(p) ==
    /\ pc[p] = "gi_done"
    /\ loc[p].cmd \in Readers
    /\ loc' = [loc EXCEPT ![p].rdOut = Append(@, [entry |-> loc[p].rdEntry,
                                                  items |-> loc[p].rdAcc]),
                          ![p].rdEntries = Tail(@), ![p].rdAcc = <<>>]
    /\ Goto(p, "ga_next")
    /\ UNCHANGED <<store, nextId, workload, returned, clock, lock>>

\* --------------------------------------------- delete_entry / delete_entry_item
EntryIdInputs == 1..workload.rows["entries"]

\* Database::delete_entry: DELETE FROM entries WHERE id = ?, with the cascades
\* the schema declares
DeleteEntry(p) ==
    /\ pc[p] = "delete_entry"
    /\ \E id \in EntryIdInputs :
        LET goneItems == Ids(entry_items) \ Ids(ItemsWithoutEntries(entry_items, {id})) IN
        /\ entries' = {e \in entries : e.id # id}
        /\ entry_items' = ItemsWithoutEntries(entry_items, {id})
        /\ jira_refs' = JiraWithoutItems(jira_refs, goneItems)
        /\ item_tags' = LinksWithoutItems(item_tags, goneItems)
        /\ item_people' = LinksWithoutItems(item_people, goneItems)
        /\ meeting_actions' = ActionsWithoutItems(meeting_actions, goneItems)
        /\ loc' = [loc EXCEPT ![p].entry = id, ![p].removed = goneItems,
                              ![p].result = Ok(NoRow)]
    /\ Goto(p, "ret")
    /\ UNCHANGED <<tags, people, meetings, meeting_attendees, nextId, projects, workload, returned, clock, lock>>

\* Faulty variant: a delete that takes the tags and people of the item with it.
DeleteEntryItemAndTargets(p) ==
    /\ pc[p] = "delete_entry_item"
    /\ \E id \in ItemIdInputs :
        /\ entry_items' = {i \in entry_items : i.id # id}
        /\ jira_refs' = JiraWithoutItems(jira_refs, {id})
        /\ tags' = {t \in tags : t.id \notin TargetsOf(item_tags, id)}
        /\ people' = {t \in people : t.id \notin TargetsOf(item_people, id)}
        /\ item_tags' = LinksWithoutTargets(item_tags, TargetsOf(item_tags, id))
        /\ item_people' = LinksWithoutTargets(item_people, TargetsOf(item_people, id))
        /\ meeting_actions' = ActionsWithoutItems(meeting_actions, {id})
        /\ loc' = [loc EXCEPT ![p].item = id, ![p].result = Ok(NoRow)]
    /\ Goto(p, "ret")
    /\ UNCHANGED <<entries, meetings, meeting_attendees, projects, nextId, workload,
                   returned, clock, lock>>

\* A faulty variant of delete_entry_item: the entry goes with its last item.
DeleteEntryItemAndEmptyEntry(p) ==
    /\ pc[p] = "delete_entry_item"
    /\ \E id \in ItemIdInputs :
        /\ entry_items' = {i \in entry_items : i.id # id}
        /\ entries' = {e \in entries : \E i \in entry_items' : i.entry_id = e.id}
        /\ jira_refs' = JiraWithoutItems(jira_refs, {id})
        /\ item_tags' = LinksWithoutItems(item_tags, {id})
        /\ item_people' = LinksWithoutItems(item_people, {id})
        /\ meeting_actions' = ActionsWithoutItems(meeting_actions, {id})
        /\ loc' = [loc EXCEPT ![p].item = id, ![p].result = Ok(NoRow)]
    /\ Goto(p, "ret")
    /\ UNCHANGED <<tags, people, meetings, meeting_attendees, nextId, projects, workload,
                   returned, clock, lock>>

\* Database::delete_entry_item: DELETE FROM entry_items WHERE id = ?
DeleteEntryItem(p) ==
    /\ pc[p] = "delete_entry_item"
    /\ \E id \in ItemIdInputs :
        /\ entry_items' = {i \in entry_items : i.id # id}
        /\ jira_refs' = JiraWithoutItems(jira_refs, {id})
        /\ item_tags' = LinksWithoutItems(item_tags, {id})
        /\ item_people' = LinksWithoutItems(item_people, {id})
        /\ meeting_actions' = ActionsWithoutItems(meeting_actions, {id})
        /\ loc' = [loc EXCEPT ![p].item = id, ![p].result = Ok(NoRow)]
    /\ Goto(p, "ret")
    /\ UNCHANGED <<entries, tags, people, meetings, meeting_attendees, nextId, projects, workload, returned, clock, lock>>

\* ------------------------------------------------------------- tag CRUD
TagIdInputs == 1..workload.rows["tags"]
TagDescriptionInputs == IF Uses("description") THEN {None} \cup Descriptions ELSE {None}
TagColorInputs == IF Uses("color") THEN {None} \cup Colors ELSE {None}
TagCategoryInputs == IF Uses("category") THEN {None} \cup Categories ELSE {None}

\* Database::create_tag
CreateTag(p) ==
    /\ pc[p] = "create_tag"
    /\ \E n \in TagNames, d \in TagDescriptionInputs, c \in TagColorInputs,
          k \in TagCategoryInputs :
        LET row == NewTag(Fresh("tags"), n, d, IF c = None THEN DefaultTagColor ELSE c, k) IN
        IF NameTaken(tags, n, NullId)
        THEN /\ loc' = [loc EXCEPT ![p].name = n, ![p].result = Err("Failed to create tag")]
             /\ UNCHANGED <<tags, nextId>>
        ELSE /\ tags' = tags \cup {row}
             /\ nextId' = Used("tags")
             /\ loc' = [loc EXCEPT ![p].name = n, ![p].result = Ok(row)]
    /\ Goto(p, "ret")
    /\ UNCHANGED <<entries, entry_items, people, jira_refs, item_tags, item_people,
                   meetings, meeting_attendees, meeting_actions, projects, workload, returned, clock, lock>>

\* Faulty variant: an UPDATE that binds every column, the absent ones as NULL.
OverwriteTagRow(t, n, d, c, k) ==
    [t EXCEPT !.updated_at = clock,
              !.name = IF n = None THEN @ ELSE n,
              !.description = d, !.color = c, !.category = k]

\* UPDATE tags SET updated_at = ?[, name = ?][, description = ?][, color = ?]
\* [, category = ?] WHERE id = ?
UpdateTagRow(t, n, d, c, k) ==
    [t EXCEPT !.updated_at = clock,
              !.name = IF n = None THEN @ ELSE n,
              !.description = IF d = None THEN @ ELSE d,
              !.color = IF c = None THEN @ ELSE c,
              !.category = IF k = None THEN @ ELSE k]

\* Database::update_tag, the UPDATE
UpdateTag(p) ==
    /\ pc[p] = "update_tag"
    /\ \E id \in TagIdInputs, n \in {None} \cup TagNames, d \in TagDescriptionInputs,
          c \in TagColorInputs, k \in TagCategoryInputs :
        LET req == [name |-> n, description |-> d, color |-> c, category |-> k] IN
        IF id \in Ids(tags) /\ n # None /\ NameTaken(tags, n, id)
        THEN /\ loc' = [loc EXCEPT ![p].sel = id, ![p].req = req,
                                   ![p].result = Err("Failed to update tag")]
             /\ Goto(p, "ret")
             /\ UNCHANGED tags
        ELSE /\ tags' = {IF t.id = id THEN UpdateTagRow(t, n, d, c, k) ELSE t : t \in tags}
             /\ loc' = [loc EXCEPT ![p].sel = id, ![p].req = req]
             /\ Goto(p, "ut_read")
    /\ UNCHANGED <<entries, entry_items, people, jira_refs, item_tags, item_people,
                   meetings, meeting_attendees, meeting_actions, nextId, projects, workload, returned, clock, lock>>

\* Faulty variant: an update that inserts the row it did not find.
UpdateTagReadOrInsert(p) ==
    /\ pc[p] = "ut_read"
    /\ IF loc[p].sel \in Ids(tags)
       THEN /\ loc' = [loc EXCEPT ![p].result = Ok(Row(tags, loc[p].sel))]
            /\ UNCHANGED tags
       ELSE LET row == NewTag(loc[p].sel, loc[p].req.name, loc[p].req.description,
                              loc[p].req.color, loc[p].req.category) IN
            /\ tags' = tags \cup {row}
            /\ loc' = [loc EXCEPT ![p].result = Ok(row)]
    /\ Goto(p, "ret")
    /\ UNCHANGED <<entries, entry_items, people, jira_refs, item_tags, item_people,
                   meetings, meeting_attendees, meeting_actions, projects, nextId,
                   workload, returned, clock, lock>>

\* Database::update_tag, the SELECT ... WHERE id = ? with fetch_one
UpdateTagRead(p) ==
    /\ pc[p] = "ut_read"
    /\ IF loc[p].sel \in Ids(tags)
       THEN loc' = [loc EXCEPT ![p].result = Ok(Row(tags, loc[p].sel))]
       ELSE loc' = [loc EXCEPT ![p].result = Err("Failed to update tag")]
    /\ Goto(p, "ret")
    /\ UNCHANGED <<store, nextId, workload, returned, clock, lock>>

\* Database::delete_tag: DELETE FROM tags WHERE id = ?, with the cascade to
\* item_tags; the handler's record keeps the items the cascade unlinked
DeleteTag(p) ==
    /\ pc[p] = "delete_tag"
    /\ \E id \in TagIdInputs :
        /\ tags' = {t \in tags : t.id # id}
        /\ item_tags' = LinksWithoutTargets(item_tags, {id})
        /\ returned' = [returned EXCEPT !.tags =
                            [n \in DOMAIN @ |-> IF @[n] = id THEN NullId ELSE @[n]]]
        /\ loc' = [loc EXCEPT ![p].sel = id, ![p].result = Ok(NoRow),
                              ![p].removed = {q[1] : q \in {r \in DOMAIN item_tags : r[2] = id}}]
    /\ Goto(p, "ret")
    /\ UNCHANGED <<entries, entry_items, people, jira_refs, item_people,
                   meetings, meeting_attendees, meeting_actions, nextId, projects, workload, clock, lock>>

\* --------------------------------------------------------- project CRUD
ProjectIdInputs == 1..workload.rows["projects"]

NewProject(id, name, description, color) ==
    [id |-> id, name |-> name, description |-> description, color |-> color,
     created_at |-> clock, updated_at |-> clock]

\* Database::create_project
CreateProject(p) ==
    /\ pc[p] = "create_project"
    /\ \E n \in ProjectRowNames, d \in TagDescriptionInputs, c \in TagColorInputs :
        LET row == NewProject(Fresh("projects"), n, d,
                              IF c = None THEN DefaultProjectColor ELSE c) IN
        IF NameTaken(projects, n, NullId)
        THEN /\ loc' = [loc EXCEPT ![p].name = n, ![p].result = Err("Failed to create project")]
             /\ UNCHANGED <<projects, nextId>>
        ELSE /\ projects' = projects \cup {row}
             /\ nextId' = Used("projects")
             /\ loc' = [loc EXCEPT ![p].name = n, ![p].result = Ok(row)]
    /\ Goto(p, "ret")
    /\ UNCHANGED <<entries, entry_items, tags, people, jira_refs, item_tags, item_people,
                   meetings, meeting_attendees, meeting_actions, workload, returned, clock, lock>>

\* UPDATE projects SET updated_at = ?[, name = ?][, description = ?][, color = ?]
\* WHERE id = ?
UpdateProjectRow(r, n, d, c) ==
    [r EXCEPT !.updated_at = clock,
              !.name = IF n = None THEN @ ELSE n,
              !.description = IF d = None THEN @ ELSE d,
              !.color = IF c = None THEN @ ELSE c]

\* Database::update_project, the UPDATE
UpdateProjectStmt(p) ==
    /\ pc[p] = "update_project"
    /\ \E id \in ProjectIdInputs, n \in {None} \cup ProjectRowNames,
          d \in TagDescriptionInputs, c \in TagColorInputs :
        LET req == [name |-> n, description |-> d, color |-> c, category |-> None] IN
        IF id \in Ids(projects) /\ n # None /\ NameTaken(projects, n, id)
        THEN /\ loc' = [loc EXCEPT ![p].sel = id, ![p].req = req,
                                   ![p].result = Err("Failed to update project")]
             /\ Goto(p, "ret")
             /\ UNCHANGED projects
        ELSE /\ projects' = {IF r.id = id THEN UpdateProjectRow(r, n, d, c) ELSE r
                                : r \in projects}
             /\ loc' = [loc EXCEPT ![p].sel = id, ![p].req = req]
             /\ Goto(p, "up_read")
    /\ UNCHANGED <<entries, entry_items, tags, people, jira_refs, item_tags, item_people,
                   meetings, meeting_attendees, meeting_actions, nextId, workload, returned,
                   clock, lock>>

\* Faulty variant: a re-read with fetch_optional that answers without a row.
UpdateProjectReadOptional(p) ==
    /\ pc[p] = "up_read"
    /\ IF loc[p].sel \in Ids(projects)
       THEN loc' = [loc EXCEPT ![p].result = Ok(Row(projects, loc[p].sel))]
       ELSE loc' = [loc EXCEPT ![p].result = Ok(NoRow)]
    /\ Goto(p, "ret")
    /\ UNCHANGED <<store, nextId, workload, returned, clock, lock>>

\* Database::update_project, the SELECT ... WHERE id = ? with fetch_one
UpdateProjectRead(p) ==
    /\ pc[p] = "up_read"
    /\ IF loc[p].sel \in Ids(projects)
       THEN loc' = [loc EXCEPT ![p].result = Ok(Row(projects, loc[p].sel))]
       ELSE loc' = [loc EXCEPT ![p].result = Err("Failed to update project")]
    /\ Goto(p, "ret")
    /\ UNCHANGED <<store, nextId, workload, returned, clock, lock>>

\* Database::delete_project: DELETE FROM projects WHERE id = ?
DeleteProject(p) ==
    /\ pc[p] = "delete_project"
    /\ \E id \in ProjectIdInputs :
        /\ projects' = {r \in projects : r.id # id}
        /\ loc' = [loc EXCEPT ![p].sel = id, ![p].result = Ok(NoRow)]
    /\ Goto(p, "ret")
    /\ UNCHANGED <<entries, entry_items, tags, people, jira_refs, item_tags, item_people,
                   meetings, meeting_attendees, meeting_actions, nextId, workload, returned,
                   clock, lock>>

\* ------------------------------------------------------------- meetings
MeetingIdInputs == 1..workload.rows["meetings"]

\* Database::create_meeting
CreateMeeting(p) ==
    /\ pc[p] = "create_meeting"
    /\ meetings' = meetings \cup {[id |-> Fresh("meetings")]}
    /\ nextId' = Used("meetings")
    /\ loc' = [loc EXCEPT ![p].result = Ok([id |-> Fresh("meetings")])]
    /\ Goto(p, "ret")
    /\ UNCHANGED <<entries, entry_items, tags, people, jira_refs, item_tags, item_people,
                   meeting_attendees, meeting_actions, projects, workload, returned, clock, lock>>

\* Database::add_meeting_attendee
AddMeetingAttendee(p) ==
    /\ pc[p] = "add_meeting_attendee"
    /\ \E m \in MeetingIdInputs :
        LET row == [id |-> Fresh("meeting_attendees"), meeting_id |-> m] IN
        IF FkHolds(meetings, m)
        THEN /\ meeting_attendees' = meeting_attendees \cup {row}
             /\ nextId' = Used("meeting_attendees")
             /\ loc' = [loc EXCEPT ![p].sel = m, ![p].result = Ok(row)]
        ELSE /\ loc' = [loc EXCEPT ![p].sel = m, ![p].result = Err("Failed to add attendee")]
             /\ UNCHANGED <<meeting_attendees, nextId>>
    /\ Goto(p, "ret")
    /\ UNCHANGED <<entries, entry_items, tags, people, jira_refs, item_tags, item_people,
                   meetings, meeting_actions, projects, workload, returned, clock, lock>>

\* Faulty variant: the action is bound to the item made last.
ActionOfLastItem(id, m) ==
    [id |-> id, meeting_id |-> m, entry_item_id |-> nextId["entry_items"] - 1]

\* The row Database::create_meeting_action inserts: the INSERT names no
\* entry_item_id, the MeetingAction it returns has entry_item_id: None
NewMeetingAction(id, m) == [id |-> id, meeting_id |-> m, entry_item_id |-> NullId]

\* Database::create_meeting_action
CreateMeetingAction(p) ==
    /\ pc[p] = "create_meeting_action"
    /\ \E m \in MeetingIdInputs :
        LET row == NewMeetingAction(Fresh("meeting_actions"), m) IN
        IF FkHolds(meetings, m)
        THEN /\ meeting_actions' = meeting_actions \cup {row}
             /\ nextId' = Used("meeting_actions")
             /\ loc' = [loc EXCEPT ![p].sel = m, ![p].result = Ok(row)]
        ELSE /\ loc' = [loc EXCEPT ![p].sel = m, ![p].result = Err("Failed to create action")]
             /\ UNCHANGED <<meeting_actions, nextId>>
    /\ Goto(p, "ret")
    /\ UNCHANGED <<entries, entry_items, tags, people, jira_refs, item_tags, item_people,
                   meetings, meeting_attendees, projects, workload, returned, clock, lock>>

\* Database::delete_meeting: DELETE FROM meetings WHERE id = ?
DeleteMeeting(p) ==
    /\ pc[p] = "delete_meeting"
    /\ \E m \in MeetingIdInputs :
        /\ meetings' = {r \in meetings : r.id # m}
        /\ meeting_attendees' = WithoutMeetings(meeting_attendees, {m})
        /\ meeting_actions' = WithoutMeetings(meeting_actions, {m})
        /\ loc' = [loc EXCEPT ![p].result = Ok(NoRow)]
    /\ Goto(p, "ret")
    /\ UNCHANGED <<entries, entry_items, tags, people, jira_refs, item_tags, item_people,
                   nextId, projects, workload, returned, clock, lock>>

\* ------------------------------------------------------- the specification
Next ==
    \/ Tick
    \/ \E p \in Procs :
        \/ Invoke(p) \/ Acquire(p) \/ Return(p)
        \/ CeParse(p) \/ CeCreateEntry(p) \/ CeCreateItem(p) \/ CeFinish(p)
        \/ TagSelect(p) \/ TagInsert(p) \/ TagLink(p) \/ TagsDone(p)
        \/ PersonSelect(p) \/ PersonInsert(p) \/ PersonLink(p) \/ PeopleDone(p)
        \/ JiraCreate(p) \/ JiraDone(p)
        \/ UeContent(p) \/ UeProject(p) \/ UeTags(p) \/ UePeople(p) \/ UeJira(p)
        \/ GeItem(p) \/ GeEntry(p)
        \/ GiItems(p) \/ GiTags(p) \/ GiPeople(p) \/ GiJira(p) \/ UeRespond(p)
        \/ GaEntries(p) \/ GaNext(p) \/ GaPush(p)
        \/ DeleteEntry(p) \/ DeleteEntryItem(p)
        \/ CreateTag(p) \/ UpdateTag(p) \/ UpdateTagRead(p) \/ DeleteTag(p)
        \/ CreateMeeting(p) \/ AddMeetingAttendee(p) \/ CreateMeetingAction(p)
        \/ DeleteMeeting(p)
        \/ StoreFault(p) \/ DbCreateEntryItem(p)
        \/ CreateProject(p) \/ UpdateProjectStmt(p) \/ UpdateProjectRead(p)
        \/ DeleteProject(p)

Spec == Init /\ [][Next]_vars

\* A step of the handler of p once it holds the lock: a statement of the
\* handler, a store call, or its return.
Step(p) ==
    \/ Return(p)
    \/ CeParse(p) \/ CeCreateEntry(p) \/ CeCreateItem(p) \/ CeFinish(p)
    \/ TagSelect(p) \/ TagInsert(p) \/ TagLink(p) \/ TagsDone(p)
    \/ PersonSelect(p) \/ PersonInsert(p) \/ PersonLink(p) \/ PeopleDone(p)
    \/ JiraCreate(p) \/ JiraDone(p)
    \/ UeContent(p) \/ UeProject(p) \/ UeTags(p) \/ UePeople(p) \/ UeJira(p)
    \/ GeItem(p) \/ GeEntry(p)
    \/ GiItems(p) \/ GiTags(p) \/ GiPeople(p) \/ GiJira(p) \/ UeRespond(p)
    \/ GaEntries(p) \/ GaNext(p) \/ GaPush(p)
    \/ DeleteEntry(p) \/ DeleteEntryItem(p)
    \/ CreateTag(p) \/ UpdateTag(p) \/ UpdateTagRead(p) \/ DeleteTag(p)
    \/ CreateMeeting(p) \/ AddMeetingAttendee(p) \/ CreateMeetingAction(p)
    \/ DeleteMeeting(p)
    \/ StoreFault(p) \/ DbCreateEntryItem(p)
    \/ CreateProject(p) \/ UpdateProjectStmt(p) \/ UpdateProjectRead(p)
    \/ DeleteProject(p)

\* The sessions the fair specification runs: the ones with commands in
\* flight at once, and short ones that between them run every handler.
Contended == {RacingPeople, Contending, Referencing, Meetings, Failing,
              Repository, ProjectEditing, Ordering}
FairInit == Init /\ workload \in Contended

\* The lock is fair (a command that waits while the lock is released again
\* and again gets it) and every statement of a handler returns (a handler
\* that can take a step takes one). Nothing obliges the front end to invoke.
FairSpec ==
    /\ FairInit
    /\ [][Next]_vars
    /\ \A p \in Procs : SF_vars(Acquire(p)) /\ WF_vars(Step(p))

\* ----------------------------------------------------------- properties
\* A command that has the response r ready to deliver.
Answered(p, c) == pc[p] = "ret" /\ loc[p].cmd = c
Succeeded(p, c) == Answered(p, c) /\ loc[p].result.ok
FailedWith(p, c, msg) == Answered(p, c) /\ loc[p].result.err = msg

\* C1: in every reachable state, whether the commands before it succeeded or
\* failed, no row is an orphan: every entry item names an existing entry,
\* every Jira ref an existing item, every item_tags / item_people row an
\* existing item and an existing tag / person, and every meeting attendee and
\* meeting action an existing meeting.
NoOrphanRows ==
    /\ \A i \in entry_items : i.entry_id \in Ids(entries)
    /\ \A j \in jira_refs : j.entry_item_id \in Ids(entry_items)
    /\ \A q \in DOMAIN item_tags : q[1] \in Ids(entry_items) /\ q[2] \in Ids(tags)
    /\ \A q \in DOMAIN item_people : q[1] \in Ids(entry_items) /\ q[2] \in Ids(people)
    /\ \A a \in meeting_attendees : a.meeting_id \in Ids(meetings)
    /\ \A a \in meeting_actions : a.meeting_id \in Ids(meetings)

\* C1 happens: update_entry_item named an item that does not exist, its tag
\* was created, and the link was refused, so the command failed half way.
LinkRefusedForMissingItem ==
    \E p \in Procs :
        /\ FailedWith(p, "update_entry_item", "Failed to link tag")
        /\ loc[p].item \notin Ids(entry_items)
        /\ tags # {}

\* C2: in every reachable state no two tag rows share a name and no two
\* person rows share a name.
UniqueNames ==
    /\ \A a, b \in tags : a.name = b.name => a.id = b.id
    /\ \A a, b \in people : a.name = b.name => a.id = b.id

\* C2 happens: update_tag tried to rename a tag to the name of another tag
\* and was refused.
RenameOntoTakenNameRefused ==
    \E p \in Procs :
        /\ FailedWith(p, "update_tag", "Failed to update tag")
        /\ loc[p].sel \in Ids(tags)
        /\ Cardinality(tags) >= 2

\* get_or_create_tag / get_or_create_person returns to the handler of p in
\* this step: with the row it found, with the row it inserted, or with the
\* error of a constraint (a failure of the store itself aside).
TagCallReturns(p) ==
    /\ pc[p] \in {"tag_next", "tag_ins"}
    /\ pc'[p] \in {"tag_link", "ret"}
    /\ ~StoreFault(p)
PersonCallReturns(p) ==
    /\ pc[p] \in {"person_next", "person_ins"}
    /\ pc'[p] \in {"person_link", "ret"}
    /\ ~StoreFault(p)

\* The call of p that returns in this step answers as the call that returned
\* id before it did: the same id, nothing written, one row of that name, and
\* the fields of the stored row.
SameAnswer(p, rows, rowsAfter, id) ==
    /\ loc'[p].got.id = id
    /\ rowsAfter = rows
    /\ Cardinality(SelectByName(rowsAfter, loc'[p].name)) = 1
    /\ loc'[p].got \in rowsAfter

\* C3 as stated: get_or_create called again with a name it was called with
\* before, the row it returned then not deleted since, returns the same id,
\* writes nothing, leaves exactly one row of that name and returns the stored
\* row's fields.
SecondCallSameRow ==
    [][\A p \in Procs :
          /\ (TagCallReturns(p) /\ returned.tags[loc'[p].name] # NullId)
                => SameAnswer(p, tags, tags', returned.tags[loc'[p].name])
          /\ (PersonCallReturns(p) /\ returned.people[loc'[p].name] # NullId)
                => SameAnswer(p, people, people', returned.people[loc'[p].name])
      ]_vars

\* The row that a call with this name returned still carries the name.
StillNamed(rows, id, name) == \E r \in rows : r.id = id /\ r.name = name

\* C3 amended: get_or_create called again with a name it was called with
\* before, the row it returned then neither deleted nor renamed away from the
\* name since, returns the same id, writes nothing, leaves exactly one row of
\* that name and returns the stored row's fields.
SecondCallSameRowUnlessRenamed ==
    [][\A p \in Procs :
          /\ (/\ TagCallReturns(p)
              /\ returned.tags[loc'[p].name] # NullId
              /\ StillNamed(tags, returned.tags[loc'[p].name], loc'[p].name))
                => SameAnswer(p, tags, tags', returned.tags[loc'[p].name])
          /\ (PersonCallReturns(p) /\ returned.people[loc'[p].name] # NullId)
                => SameAnswer(p, people, people', returned.people[loc'[p].name])
      ]_vars

\* C3 happens: one request lists the same tag name twice, and the second
\* get_or_create_tag has just returned the row the first one created.
SameNameTwiceInOneRequest ==
    \E p \in Procs :
        /\ pc[p] = "tag_link"
        /\ Len(loc[p].tags) = 2
        /\ loc[p].tags[1] = loc[p].tags[2]
        /\ loc[p].got.id = returned.tags[loc[p].name]
        /\ \E q \in DOMAIN item_tags : q = <<loc[p].item, loc[p].got.id>>

\* The commands that get-or-create the tags and people of an item.
Linkers == {"create_entry", "update_entry_item"}

\* Every name of the list is the name of one row, and the item is linked to it.
AllLinked(list, rows, bag, itemId) ==
    \A n \in Range(list) :
        /\ Cardinality(SelectByName(rows, n)) = 1
        /\ \A r \in SelectByName(rows, n) : BagIn(<<itemId, r.id>>, bag)

\* C4: however the commands that get-or-create a tag or a person interleave,
\* none of them fails in get_or_create, none fails to link an item that
\* exists, and each of them, once it has linked the names of its list, finds
\* one row per name with its item linked to it.
ConcurrentGetOrCreateAgree ==
    \A p \in Procs :
        loc[p].cmd \in Linkers =>
            /\ loc[p].result.err \notin
                   {"Failed to create tag", "Failed to get or create tag",
                    "Failed to create person", "Failed to get or create person"}
            /\ loc[p].result.err \in {"Failed to link tag", "Failed to link person"}
                   => loc[p].item \notin Ids(entry_items)
            /\ pc[p] = "tag_next" =>
                   AllLinked(loc[p].tags, tags, item_tags, loc[p].item)
            /\ pc[p] = "person_next" =>
                   AllLinked(loc[p].people, people, item_people, loc[p].item)

\* Some item other than itemId is linked to the row of this name too.
SharedWithAnotherItem(name, rows, bag, itemId) ==
    \E r \in SelectByName(rows, name), q \in DOMAIN bag : q[2] = r.id /\ q[1] # itemId

\* C4 happens: a command that was invoked while another one was in flight has
\* linked its item to a tag, and another item is linked to that same row.
OverlappingCommandsShareTag ==
    \E p \in Procs :
        /\ loc[p].cmd \in Linkers
        /\ loc[p].overlapped
        /\ pc[p] = "tag_next"
        /\ \E n \in Range(loc[p].tags) :
               SharedWithAnotherItem(n, tags, item_tags, loc[p].item)

\* A command is between `state.lock().await` and its return.
InHandler(p) == pc[p] \notin {"idle", "lock"}

\* C5: a command that is anywhere between its first store statement and its
\* return holds the AppState lock, so at most one command is there at a time.
OneCommandAtATime ==
    /\ \A p \in Procs : InHandler(p) => lock = p
    /\ \A p, q \in Procs : InHandler(p) /\ InHandler(q) => p = q

\* C5 happens: a command is in the middle of its statements while another
\* one, already invoked, waits for the lock.
CommandWaitsBehindAnother ==
    \E p, q \in Procs :
        /\ pc[p] = "lock"
        /\ pc[q] \in {"tag_ins", "tag_link", "person_ins", "person_link"}

\* update_entry_item has removed the item's links and has not yet linked the
\* whole new list.
ReplacingTagsOf(w, itemId) ==
    /\ loc[w].cmd = "update_entry_item"
    /\ loc[w].item = itemId
    /\ pc[w] \in {"tag_next", "tag_ins", "tag_link"}

\* The reader r reads the tags of an item in this step.
ReadsTags(r) ==
    /\ loc[r].cmd \in Readers
    /\ pc[r] = "gi_tags"
    /\ pc'[r] = "gi_people"

\* C6: when get_all_entries or the export reads the tags of an item, no
\* update_entry_item is in the middle of replacing them, and the tags read
\* are the whole set linked to the item: never none or a part of a new set.
ReadersSeeWholeTagSets ==
    [][\A r \in Procs :
          ReadsTags(r) =>
              LET itemId == Head(loc[r].rdItems).id IN
              /\ \A w \in Procs : ~ReplacingTagsOf(w, itemId)
              /\ {t.id : t \in Range(loc'[r].rdTags)} = TargetsOf(item_tags, itemId)
              /\ Len(loc'[r].rdTags) = Cardinality(TargetsOf(item_tags, itemId))
      ]_vars

\* C6 happens: update_entry_item has removed a non-empty tag set and is about
\* to link the first tag of the new list, the item has no tag at this moment,
\* and a reader waits for the lock.
ReaderWaitsDuringReplacement ==
    \E r, w \in Procs :
        /\ loc[r].cmd \in Readers
        /\ pc[r] = "lock"
        /\ ReplacingTagsOf(w, loc[w].item)
        /\ pc[w] = "tag_link"
        /\ loc[w].removed # {}
        /\ loc[w].item \in Ids(entry_items)
        /\ TargetsOf(item_tags, loc[w].item) = {}

\* The names of the rows a join table links to an item.
LinkedNames(bag, itemId, rows) ==
    {r.name : r \in {t \in rows : t.id \in TargetsOf(bag, itemId)}}

\* The response r is the view of the stored item of this id.
ViewOf(r, itemId) ==
    /\ r.id = itemId
    /\ \E i \in entry_items :
        /\ i.id = itemId
        /\ r.item_type = i.item_type
        /\ r.content = i.content
        /\ r.project = i.project
    /\ Range(r.tags) = LinkedNames(item_tags, itemId, tags)
    /\ Range(r.people) = LinkedNames(item_people, itemId, people)
    /\ Range(r.jira) = {j.jira_key : j \in {k \in jira_refs : k.entry_item_id = itemId}}

\* C7 as stated: a successful update_entry_item answers with the view of the
\* item whose id it was given: that id, and that item's content, project,
\* tags, jira keys and people after the update.
UpdateAnswersWithItsItem ==
    \A p \in Procs :
        Succeeded(p, "update_entry_item") => ViewOf(loc[p].result.val, loc[p].item)

\* The links of one item in a join table, with their multiplicities.
LinksOf(bag, itemId) == [q \in {r \in DOMAIN bag : r[1] = itemId} |-> bag[q]]

\* One link from the item to each row whose name is in the list.
OneLinkPerName(list, rows, itemId) ==
    [q \in {<<itemId, r.id>> : r \in {t \in rows : t.name \in Range(list)}} |-> 1]

\* C8: while update_entry_item replaces the tags of an item, after each link
\* and so after the last one, item_tags holds for that item exactly one row
\* per distinct name linked so far, and no row of a tag of the old set only.
ReplacedTagSetIsExact ==
    \A p \in Procs :
        (loc[p].cmd = "update_entry_item" /\ pc[p] = "tag_next") =>
            LinksOf(item_tags, loc[p].item)
                = OneLinkPerName(loc[p].tags, tags, loc[p].item)

\* C8 happens: update_entry_item has linked a new list of two names to an
\* item whose old set had a tag that is in the new list and one that is not.
TagSetReplacedByOverlappingSet ==
    \E p \in Procs :
        /\ loc[p].cmd = "update_entry_item"
        /\ pc[p] = "tag_next"
        /\ Len(loc[p].tags) = 2
        /\ loc[p].tags[1] # loc[p].tags[2]
        /\ loc[p].removed \cap TargetsOf(item_tags, loc[p].item) # {}
        /\ loc[p].removed \ TargetsOf(item_tags, loc[p].item) # {}
        /\ TargetsOf(item_tags, loc[p].item) \ loc[p].removed # {}

\* The part of a join table that belongs to the items kept.
LinksOfKept(bag, goneItems) ==
    [q \in {r \in DOMAIN bag : r[1] \notin goneItems} |-> bag[q]]

\* C9: the step of delete_entry(e) removes the entry e, the items of e, the
\* Jira refs and the item_tags / item_people rows of those items, and leaves
\* every other row of these tables, and all tags and people, as they were.
DeleteEntryRemovesExactlyItsRows ==
    [][\A p \in Procs :
          (pc[p] = "delete_entry" /\ pc'[p] = "ret") =>
              LET e == loc'[p].entry
                  goneItems == {i.id : i \in {k \in entry_items : k.entry_id = e}}
              IN
              /\ loc'[p].result.ok
              /\ entries' = {x \in entries : x.id # e}
              /\ entry_items' = {i \in entry_items : i.entry_id # e}
              /\ jira_refs' = {j \in jira_refs : j.entry_item_id \notin goneItems}
              /\ item_tags' = LinksOfKept(item_tags, goneItems)
              /\ item_people' = LinksOfKept(item_people, goneItems)
              /\ tags' = tags
              /\ people' = people
      ]_vars

\* C9 happens: delete_entry has removed an entry together with items of it
\* that had a tag, a person and a Jira ref, and another entry with its item
\* and that item's tag link is still there.
EntryDeletedBesideAnother ==
    \E p \in Procs :
        /\ Succeeded(p, "delete_entry")
        /\ loc[p].entry \notin Ids(entries)
        /\ loc[p].removed # {}
        /\ jira_refs = {} /\ nextId["jira_refs"] > 1
        /\ \E i \in entry_items :
            /\ i.entry_id \in Ids(entries)
            /\ TargetsOf(item_tags, i.id) # {}
            /\ TargetsOf(item_people, i.id) # {}

\* The handler of p runs link_item_tag / link_item_person in this step for a
\* pair that is linked already.
RelinksTag(p) ==
    /\ TagLink(p)
    /\ BagIn(<<loc[p].item, loc[p].got.id>>, item_tags)
RelinksPerson(p) ==
    /\ PersonLink(p)
    /\ BagIn(<<loc[p].item, loc[p].got.id>>, item_people)

\* C10: no pair is ever in item_tags or item_people more than once, and
\* linking a pair that is linked already succeeds and leaves the table as it
\* was.
LinkIsIdempotent ==
    /\ [](/\ \A q \in DOMAIN item_tags : item_tags[q] = 1
          /\ \A q \in DOMAIN item_people : item_people[q] = 1)
    /\ [][\A p \in Procs :
             /\ RelinksTag(p) => (pc'[p] = "tag_next" /\ item_tags' = item_tags)
             /\ RelinksPerson(p) => (pc'[p] = "person_next" /\ item_people' = item_people)
         ]_vars

\* C10 happens: a request listed the same tag name twice, so the pair was
\* linked a second time, and the table holds it once.
SamePairLinkedTwice ==
    \E p \in Procs :
        /\ pc[p] = "tag_next"
        /\ Len(loc[p].tags) = 2
        /\ loc[p].tags[1] = loc[p].tags[2]
        /\ Cardinality(TargetsOf(item_tags, loc[p].item)) = 1
        /\ \A q \in DOMAIN item_tags : item_tags[q] = 1

\* The response of get_all_entries holds the entry of m once, with the item
\* of m once in it, under exactly the tag and people names m was made with.
ReadBack(resp, m) ==
    /\ Cardinality({k \in 1..Len(resp) : resp[k].id = m.entry}) = 1
    /\ \A k \in 1..Len(resp) :
        resp[k].id = m.entry =>
            /\ Cardinality({j \in 1..Len(resp[k].items) : resp[k].items[j].id = m.item}) = 1
            /\ \A j \in 1..Len(resp[k].items) :
                resp[k].items[j].id = m.item =>
                    /\ Range(resp[k].items[j].tags) = m.tags
                    /\ Range(resp[k].items[j].people) = m.people

\* The made items whose request named this tag / this person.
MadeWithTag(n) == {m \in returned.made : n \in m.tags}
MadeWithPerson(n) == {m \in returned.made : n \in m.people}

\* C11: after a successful create_entry, get_all_entries answers with its
\* entry and each of its items under exactly the tag names and the people
\* names of the request, and a later get_or_create_tag / get_or_create_person
\* of one of those names returns the id of the row linked to the item and
\* creates no row.
CreatedEntryReadsBack ==
    /\ [](\A p \in Procs :
             Succeeded(p, "get_all_entries") =>
                 \A m \in returned.made : ReadBack(loc[p].result.val, m))
    /\ [][\A p \in Procs :
             /\ (TagCallReturns(p) /\ MadeWithTag(loc'[p].name) # {}) =>
                    /\ pc'[p] = "tag_link"
                    /\ tags' = tags
                    /\ \A m \in MadeWithTag(loc'[p].name) :
                           BagIn(<<m.item, loc'[p].got.id>>, item_tags)
             /\ (PersonCallReturns(p) /\ MadeWithPerson(loc'[p].name) # {}) =>
                    /\ pc'[p] = "person_link"
                    /\ people' = people
                    /\ \A m \in MadeWithPerson(loc'[p].name) :
                           BagIn(<<m.item, loc'[p].got.id>>, item_people)
         ]_vars

\* C11 happens: get_all_entries answers after create_entry calls made two
\* items with different tag sets, one of them with a person too, the second
\* of them reusing a tag name of the first.
TaggedEntriesReadBack ==
    \E p \in Procs :
        /\ Succeeded(p, "get_all_entries")
        /\ \E m1, m2 \in returned.made :
            /\ m1.entry # m2.entry
            /\ m1.tags # m2.tags
            /\ m1.tags \cap m2.tags # {}
            /\ m1.people # {}

\* The items of the stored entry e.
ItemsOf(e) == {i \in entry_items : i.entry_id = e}

\* The sequence lists every row of the set once, by id.
ListsOnce(list, rows) ==
    /\ Len(list) = Cardinality(rows)
    /\ {list[k].id : k \in 1..Len(list)} = Ids(rows)

\* C12: get_all_entries answers with every stored entry once, a later event
\* timestamp before an earlier one, and in each entry every item of that
\* entry once, an earlier creation time before a later one.
EntriesNewestFirstItemsOldestFirst ==
    \A p \in Procs :
        Succeeded(p, "get_all_entries") =>
            LET resp == loc[p].result.val IN
            /\ ListsOnce(resp, entries)
            /\ \A i, j \in 1..Len(resp) :
                i < j => resp[i].timestamp >= resp[j].timestamp
            /\ \A k \in 1..Len(resp) :
                /\ ListsOnce(resp[k].items, ItemsOf(resp[k].id))
                /\ \A i, j \in 1..Len(resp[k].items) :
                    i < j => Row(entry_items, resp[k].items[i].id).created_at
                                 <= Row(entry_items, resp[k].items[j].id).created_at

\* C12 happens: get_all_entries answers with two entries, the one created
\* last first because its event timestamp is the later one, and one of them
\* has two items created at different instants.
LaterEventListedFirst ==
    \E p \in Procs :
        /\ Succeeded(p, "get_all_entries")
        /\ LET resp == loc[p].result.val IN
            /\ Len(resp) = 2
            /\ resp[1].id > resp[2].id
            /\ resp[1].timestamp > resp[2].timestamp
            /\ \E k \in 1..2 :
                /\ Len(resp[k].items) = 2
                /\ \E a, b \in ItemsOf(resp[k].id) : a.created_at # b.created_at

\* The compound command of p has failed: one of its steps returned an error.
Failed(p) == loc[p].cmd \in Linkers /\ loc[p].result.err # None

\* C13: when a step of create_entry or update_entry_item fails, the command
\* is at its return with that error and runs no further step; the failing
\* step itself writes nothing, and nothing is written or undone afterwards,
\* so what the earlier steps wrote or removed stays as they left it.
FailedStepAbortsWithoutRollback ==
    /\ [](\A p \in Procs : Failed(p) => (pc[p] = "ret" /\ ~loc[p].result.ok))
    /\ [][\A p \in Procs :
             /\ (loc[p].cmd \in Linkers /\ ~Failed(p) /\ loc'[p].result.err # None)
                    => store' = store
             /\ Failed(p) => (store' = store /\ pc'[p] \in {"ret", "idle"})
         ]_vars

\* C13 happens: update_entry_item removed the tags of an existing item, got
\* or created the first tag of the new list, and the re-link failed: the
\* command returns the error, the item is left without any tag, and the tag
\* rows are all still there.
RelinkFailedAfterRemoval ==
    \E p \in Procs :
        /\ FailedWith(p, "update_entry_item", "Failed to link tag" \o IoError)
        /\ loc[p].item \in Ids(entry_items)
        /\ loc[p].removed # {}
        /\ TargetsOf(item_tags, loc[p].item) = {}
        /\ loc[p].removed \subseteq Ids(tags)
        /\ loc[p].got.id \in Ids(tags) \ loc[p].removed

\* The timestamp of the request of p did not parse, in this step or before.
Unparsed(p) == loc[p].cmd = "create_entry" /\ loc[p].result.err = "Invalid timestamp"

\* C14: create_entry parses the timestamp as its first step under the lock and
\* inserts the entry only with a timestamp that parsed; when the timestamp does
\* not parse, the command fails in that step and, from taking the lock to its
\* return, changes no table, whatever items its request carries.
InvalidTimestampWritesNothing ==
    /\ [](\A p \in Procs :
             (loc[p].cmd = "create_entry" /\ loc[p].entry # NullId)
                 => loc[p].ts \in workload.stamps)
    /\ [][\A p \in Procs :
             /\ (loc[p].cmd = "create_entry" /\ pc[p] = "lock" /\ pc'[p] # "lock")
                    => (pc'[p] = "ce_parse" /\ store' = store)
             /\ (loc[p].cmd = "create_entry" /\ ~Unparsed(p) /\ Unparsed(p)')
                    => /\ pc[p] = "ce_parse" /\ pc'[p] = "ret"
                       /\ ~loc'[p].result.ok
                       /\ store' = store
             /\ Unparsed(p) => (store' = store /\ pc'[p] \in {"ret", "idle"})
         ]_vars

\* C14 happens: create_entry has failed on its timestamp in a store that
\* already holds an entry with a tagged item, and has read none of its items.
InvalidTimestampRefused ==
    \E p \in Procs :
        /\ FailedWith(p, "create_entry", "Invalid timestamp")
        /\ loc[p].entry = NullId /\ loc[p].items = <<>>
        /\ entries # {} /\ entry_items # {} /\ tags # {}
        /\ item_tags # EmptyBag

\* The step of p is refused: it answers with an error and no table changes.
Refused(p) == pc'[p] = "ret" /\ ~loc'[p].result.ok /\ store' = store

\* C15: an insert that names a parent row which does not exist is refused
\* with an error and inserts nothing: create_entry_item for an unknown entry,
\* create_jira_ref, link_item_tag and link_item_person for an unknown item,
\* add_meeting_attendee and create_meeting_action for an unknown meeting.
InsertUnderMissingParentRefused ==
    [][\A p \in Procs :
          /\ (DbCreateEntryItem(p) /\ loc'[p].entry \notin Ids(entries)) => Refused(p)
          /\ (JiraCreate(p) /\ loc[p].item \notin Ids(entry_items)) => Refused(p)
          /\ (TagLink(p) /\ loc[p].item \notin Ids(entry_items)) => Refused(p)
          /\ (PersonLink(p) /\ loc[p].item \notin Ids(entry_items)) => Refused(p)
          /\ (AddMeetingAttendee(p) /\ loc'[p].sel \notin Ids(meetings)) => Refused(p)
          /\ (CreateMeetingAction(p) /\ loc'[p].sel \notin Ids(meetings)) => Refused(p)
      ]_vars

\* C15 happens: create_entry_item was called with the id of an entry that
\* was deleted, beside an entry that exists, and was refused.
ItemForDeletedEntryRefused ==
    \E p \in Procs :
        /\ Answered(p, "Database::create_entry_item")
        /\ loc[p].result.err = ForeignKeyFailed
        /\ loc[p].entry \notin Ids(entries)
        /\ loc[p].entry < nextId["entries"]
        /\ entries # {}

\* C16: update_project and update_tag called with an id that no row has leave
\* every table as it is, in the UPDATE and in the re-read, and answer with
\* an error.
UpdateOfMissingRowFails ==
    /\ [](\A p \in Procs :
             /\ (Answered(p, "update_tag") /\ loc[p].sel \notin Ids(tags))
                    => (~loc[p].result.ok /\ loc[p].result.err = "Failed to update tag")
             /\ (Answered(p, "update_project") /\ loc[p].sel \notin Ids(projects))
                    => (~loc[p].result.ok /\ loc[p].result.err = "Failed to update project"))
    /\ [][\A p \in Procs :
             /\ (UpdateTag(p) /\ loc'[p].sel \notin Ids(tags)) => store' = store
             /\ (UpdateTagRead(p) /\ loc[p].sel \notin Ids(tags)) => store' = store
             /\ (UpdateProjectStmt(p) /\ loc'[p].sel \notin Ids(projects)) => store' = store
             /\ (UpdateProjectRead(p) /\ loc[p].sel \notin Ids(projects)) => store' = store
         ]_vars

\* C16 happens: update_project was called with the id of a project that was
\* deleted and with the name of a project that exists, and failed.
UpdateOfDeletedProjectFailed ==
    \E p \in Procs :
        /\ FailedWith(p, "update_project", "Failed to update project")
        /\ loc[p].sel \notin Ids(projects)
        /\ loc[p].sel < nextId["projects"]
        /\ \E r \in projects : r.name = loc[p].req.name

\* A supplied value is the new value of the field, an absent one keeps the old.
Supplied(new, old, given) == new = (IF given = None THEN old ELSE given)

\* The rows of a table other than the row of this id.
Others(rows, id) == {r \in rows : r.id # id}

\* The UPDATE of the row id of rows, giving rowsAfter, wrote exactly the fields
\* of the request req and the time of the call.
WroteExactly(rows, rowsAfter, id, req) ==
    /\ Others(rowsAfter, id) = Others(rows, id)
    /\ \E old \in rows, new \in rowsAfter :
        /\ old.id = id /\ new.id = id
        /\ rowsAfter = Others(rows, id) \cup {new}
        /\ new.created_at = old.created_at
        /\ new.updated_at = clock
        /\ Supplied(new.name, old.name, req.name)
        /\ Supplied(new.description, old.description, req.description)
        /\ Supplied(new.color, old.color, req.color)

\* C17: the UPDATE of update_tag / update_project that goes through on an
\* existing row writes exactly the supplied fields and updated_at, keeps id,
\* created_at and every absent field, and leaves every other row and table
\* alone; the re-read changes nothing and the entity returned is the stored
\* row.  (An UPDATE refused because the supplied name is taken changes nothing.)
UpdateWritesSuppliedFieldsOnly ==
    /\ [](\A p \in Procs :
             /\ Succeeded(p, "update_tag")
                    => (loc[p].result.val \in tags /\ loc[p].result.val.id = loc[p].sel)
             /\ Succeeded(p, "update_project")
                    => (loc[p].result.val \in projects /\ loc[p].result.val.id = loc[p].sel))
    /\ [][\A p \in Procs :
             /\ (UpdateTag(p) /\ loc'[p].sel \in Ids(tags) /\ pc'[p] = "ut_read") =>
                    /\ WroteExactly(tags, tags', loc'[p].sel, loc'[p].req)
                    /\ Supplied(Row(tags', loc'[p].sel).category,
                                Row(tags, loc'[p].sel).category, loc'[p].req.category)
                    /\ projects' = projects /\ item_tags' = item_tags
             /\ (UpdateProjectStmt(p) /\ loc'[p].sel \in Ids(projects) /\ pc'[p] = "up_read") =>
                    /\ WroteExactly(projects, projects', loc'[p].sel, loc'[p].req)
                    /\ tags' = tags /\ entry_items' = entry_items
             /\ ((UpdateTag(p) \/ UpdateProjectStmt(p)) /\ pc'[p] = "ret") =>
                    (store' = store /\ ~loc'[p].result.ok)
             /\ (UpdateTagRead(p) \/ UpdateProjectRead(p)) => store' = store
         ]_vars

\* C17 happens: update_tag was called with no field at all for a tag that has
\* a description and a category; it is answered with the row, whose
\* updated_at is now later than its created_at, beside another tag.
EmptyUpdateRefreshedUpdatedAt ==
    \E p \in Procs :
        /\ Succeeded(p, "update_tag")
        /\ loc[p].req = NoRequest
        /\ loc[p].result.val.updated_at > loc[p].result.val.created_at
        /\ loc[p].result.val.description # None
        /\ loc[p].result.val.category # None
        /\ Cardinality(tags) = 2

\* The handler of update_entry_item runs in p, which holds the lock.
Updating(p) == lock = p /\ loc[p].cmd = "update_entry_item"

\* How many Jira refs of the item carry the key, and how often a list names it.
RefsWithKey(itemId, k) ==
    Cardinality({j \in jira_refs : j.entry_item_id = itemId /\ j.jira_key = k})
TimesListed(list, k) == Cardinality({i \in 1..Len(list) : list[i] = k})

\* The Jira refs of the items other than this one.
RefsOfOthers(refs, itemId) == {j \in refs : j.entry_item_id # itemId}

\* C18: update_entry_item touches a relation only in the steps of that
\* relation's own array, which run only when the array is present, and only
\* for its own item; while it links a supplied people array the item's
\* people are exactly the names linked so far, and while it attaches a
\* supplied jira array the item's Jira refs are exactly the keys attached so
\* far, each as often as it was listed.
RelationsReplacedOnlyWhenSupplied ==
    /\ [](\A p \in Procs :
             /\ (Updating(p) /\ pc[p] = "person_next") =>
                    LinksOf(item_people, loc[p].item)
                        = OneLinkPerName(loc[p].people, people, loc[p].item)
             /\ (Updating(p) /\ pc[p] = "jira_next") =>
                    \A k \in JiraKeys :
                        RefsWithKey(loc[p].item, k) = TimesListed(loc[p].jira, k))
    /\ [][\A p \in Procs :
             Updating(p) =>
                 /\ pc[p] \notin {"ue_tags", "tag_link"} => item_tags' = item_tags
                 /\ pc[p] \notin {"ue_people", "person_link"} => item_people' = item_people
                 /\ pc[p] \notin {"ue_jira", "jira_next"} => jira_refs' = jira_refs
                 /\ (pc[p] = "ue_tags" /\ pc'[p] = "ue_people") => item_tags' = item_tags
                 /\ (pc[p] = "ue_people" /\ pc'[p] = "ue_jira") => item_people' = item_people
                 /\ (pc[p] = "ue_jira" /\ pc'[p] = "ge_item") => jira_refs' = jira_refs
                 /\ pc[p] # "ue_content" =>
                        /\ LinksWithoutItems(item_tags', {loc[p].item})
                               = LinksWithoutItems(item_tags, {loc[p].item})
                        /\ LinksWithoutItems(item_people', {loc[p].item})
                               = LinksWithoutItems(item_people, {loc[p].item})
                        /\ RefsOfOthers(jira_refs', loc[p].item)
                               = RefsOfOthers(jira_refs, loc[p].item)
         ]_vars

\* C18 happens: update_entry_item has replaced the Jira refs of an item that
\* had some by a list that names one key twice, the item has that key twice,
\* and another item still has its own ref.
JiraRefsReplacedWithRepeats ==
    \E p \in Procs :
        /\ Updating(p)
        /\ pc[p] = "jira_next"
        /\ Len(loc[p].jira) = 2
        /\ loc[p].jira[1] = loc[p].jira[2]
        /\ RefsWithKey(loc[p].item, loc[p].jira[1]) = 2
        /\ RefsOfOthers(jira_refs, loc[p].item) # {}
        /\ Cardinality(jira_refs) < nextId["jira_refs"] - 1

\* The commands that unlink tags and people from items.
Unlinkers == {"update_entry_item", "delete_entry_item", "delete_entry"}

\* update_entry_item is past the tags of its request, which were an empty
\* list, and has not failed.
Untagged(p) ==
    /\ Updating(p)
    /\ pc[p] \notin {"ue_content", "ue_project", "ue_tags", "tag_next", "tag_ins", "tag_link"}
    /\ ~Failed(p)
    /\ loc[p].removed # {}

\* C19: no step of update_entry_item, delete_entry_item or delete_entry
\* removes or changes a row of tags or of people; and once update_entry_item
\* has replaced the tags of an item by the empty list, the item has no
\* item_tags row, and the tags it had are all still there.
UntaggingKeepsTagRows ==
    /\ [](\A p \in Procs :
             Untagged(p) =>
                 /\ LinksOf(item_tags, loc[p].item) = EmptyBag
                 /\ loc[p].removed \subseteq Ids(tags))
    /\ [][\A p \in Procs :
             (lock = p /\ loc[p].cmd \in Unlinkers) =>
                 (tags \subseteq tags' /\ people \subseteq people')
         ]_vars

\* C19 happens: update_entry_item with tags = [] has answered for an item
\* that had tags: the answer and the join table show no tag for it, and the
\* tag rows it was linked to exist.
ItemUntaggedTagRowsKept ==
    \E p \in Procs :
        /\ Succeeded(p, "update_entry_item")
        /\ Untagged(p)
        /\ loc[p].result.val.id = loc[p].item
        /\ loc[p].result.val.tags = <<>>
        /\ LinksOf(item_tags, loc[p].item) = EmptyBag
        /\ loc[p].removed \subseteq Ids(tags)

\* A step that leaves tags / people with a row id that was not there.
AddsTagRow == Ids(tags') \ Ids(tags) # {}
AddsPersonRow == Ids(people') \ Ids(people) # {}

\* C21 as stated: every step that adds a row to tags is the INSERT of
\* get_or_create_tag, and every step that adds a row to people is the INSERT
\* of get_or_create_person.
OnlyGetOrCreateInserts ==
    [][/\ AddsTagRow => \E p \in Procs : TagInsert(p)
       /\ AddsPersonRow => \E p \in Procs : PersonInsert(p)]_vars

\* C21, amended: a row of people is added only by the INSERT of
\* get_or_create_person; a row of tags is added only by the INSERT of
\* get_or_create_tag or by the INSERT of Database::create_tag, and
\* create_tag adds it only under a name no row carries.
OnlyGetOrCreateAndCreateTagInsert ==
    [][/\ AddsTagRow =>
              \E p \in Procs :
                  \/ TagInsert(p)
                  \/ CreateTag(p) /\ ~NameTaken(tags, loc'[p].name, NullId)
       /\ AddsPersonRow => \E p \in Procs : PersonInsert(p)]_vars

\* C21 happens: create_tag has answered with a row it inserted, under a name
\* get_or_create_tag never returned a live row for.
TagRowMadeByCreateTag ==
    \E p \in Procs :
        /\ Succeeded(p, "create_tag")
        /\ loc[p].result.val \in tags
        /\ returned.tags[loc[p].name] = NullId

\* ------------------------------------------------------- reading CSV back
\* A CSV reader after RFC 4180, over the rest of the text: the reader is at
\* the start of a record ("line"), at the start of a field ("start"), inside
\* an unquoted field ("plain"), inside a quoted field ("quoted") or behind
\* the quote that may close one ("closed").  It answers with the records read,
\* each the sequence of its fields, and with whether the text was well formed.
RECURSIVE CsvRead(_, _, _, _, _)
CsvRead(text, mode, field, record, records) ==
    IF Len(text) = 0
    THEN IF mode = "line" THEN [ok |-> TRUE, records |-> records]
         ELSE [ok |-> mode # "quoted",
               records |-> Append(records, Append(record, field))]
    ELSE LET c == Head(text)
             rest == Tail(text)
             bad == [ok |-> FALSE, records |-> Append(records, Append(record, field))]
         IN
         IF c = "" THEN CsvRead(rest, mode, field, record, records)
         ELSE IF mode = "quoted"
         THEN IF c = Quote THEN CsvRead(rest, "closed", field, record, records)
              ELSE CsvRead(rest, "quoted", Append(field, c), record, records)
         ELSE IF c = Comma
         THEN CsvRead(rest, "start", <<>>, Append(record, field), records)
         ELSE IF c = LineBreak
         THEN CsvRead(rest, "line", <<>>, <<>>, Append(records, Append(record, field)))
         ELSE IF c = Quote
         THEN IF mode = "closed"
              THEN CsvRead(rest, "quoted", Append(field, Quote), record, records)
              ELSE IF mode = "plain" THEN bad
              ELSE CsvRead(rest, "quoted", field, record, records)
         ELSE IF mode = "closed" THEN bad
         ELSE CsvRead(rest, "plain", Append(field, c), record, records)

ParseCsv(text) == CsvRead(text, "line", <<>>, <<>>, <<>>)

\* The items of the aggregated entries in the order they were returned in,
\* each with its entry.
RECURSIVE Flat(_)
Flat(out) ==
    IF Len(out) = 0 THEN <<>>
    ELSE [i \in 1..Len(Head(out).items) |->
             [entry |-> Head(out).entry, m |-> Head(out).items[i]]]
         \o Flat(Tail(out))

\* A short text as a CSV field, and the same for a list of names.
AsField(v) == IF v = "" \/ v = None THEN <<>> ELSE <<v>>
Names(rows) == [i \in 1..Len(rows) |-> rows[i].name]
Keys(rows) == [i \in 1..Len(rows) |-> rows[i].jira_key]

\* No special character in the type, project, tag names, Jira keys and
\* people names of the item.
PlainItem(m) ==
    /\ m.item.item_type \notin Specials
    /\ m.item.project \notin Specials
    /\ Range(Names(m.tags)) \cap Specials = {}
    /\ Range(Keys(m.jira_refs)) \cap Specials = {}
    /\ Range(Names(m.people)) \cap Specials = {}

Exported(p) == Succeeded(p, "export_entries_csv")

\* C22: the text export_entries_csv answers with reads as the header record
\* followed by one record per entry item of the store, in the order in which
\* get_all_entries_with_items returned the items, entry by entry: each record
\* has 8 fields and carries the date and time of the item's entry, the type
\* of the item and its project, the empty field for an absent project.
\* (Stated for items whose type, project and names are free of the characters
\* CSV gives a meaning to; the content is any text.)
CsvExportHasOneRowPerItem ==
    \A p \in Procs :
        LET flat == Flat(loc[p].rdOut)
            parsed == ParseCsv(loc[p].result.val)
            rows == parsed.records
        IN
        (Exported(p) /\ \A k \in 1..Len(flat) : PlainItem(flat[k].m)) =>
            /\ parsed.ok
            /\ Len(rows) = 1 + Cardinality(entry_items)
            /\ rows[1] = <<<<"Date">>, <<"Time">>, <<"Type">>, <<"Content">>,
                           <<"Project">>, <<"Tags">>, <<"Jira">>, <<"People">>>>
            /\ Len(flat) = Cardinality(entry_items)
            /\ {flat[k].m.item : k \in 1..Len(flat)} = entry_items
            /\ \A k \in 1..Len(flat) :
                LET e == Row(entries, flat[k].m.item.entry_id)
                    row == rows[k + 1]
                IN
                /\ flat[k].entry = e
                /\ Len(row) = 8
                /\ row[1] = <<FormatDate(e.timestamp)>>
                /\ row[2] = <<FormatTime(e.timestamp)>>
                /\ row[3] = <<flat[k].m.item.item_type>>
                /\ row[5] = AsField(flat[k].m.item.project)

\* C22 happens: the export has answered for a store with an entry of two
\* items, an entry without items and an item without project.
EntryOfTwoItemsExported ==
    \E p \in Procs :
        /\ Exported(p)
        /\ \E e \in entries : Cardinality({i \in entry_items : i.entry_id = e.id}) = 2
        /\ \E e \in entries : \A i \in entry_items : i.entry_id # e.id
        /\ \E i \in entry_items : i.project = None
        /\ Len(ParseCsv(loc[p].result.val).records) = 3

\* Every item of the aggregation is free of special characters outside its
\* content.
PlainOutsideContent(out) == \A k \in 1..Len(Flat(out)) : PlainItem(Flat(out)[k].m)

\* C23: the Content field of the record the export wrote for an item, read
\* back by the CSV reader, is the content the store holds for the item,
\* whatever double quotes, commas and line breaks the content has.
CsvContentRoundTrip ==
    \A p \in Procs :
        LET flat == Flat(loc[p].rdOut)
            parsed == ParseCsv(loc[p].result.val)
        IN
        (Exported(p) /\ PlainOutsideContent(loc[p].rdOut)) =>
            /\ parsed.ok
            /\ \A k \in 1..Len(flat) :
                parsed.records[k + 1][4] = flat[k].m.item.content

\* C23 happens: the export has answered for an item whose content has a
\* double quote, a comma and a line break, and the content was read back.
PunctuatedContentReadBack ==
    \E p \in Procs :
        /\ Exported(p)
        /\ PlainOutsideContent(loc[p].rdOut)
        /\ \E i \in entry_items :
            /\ Specials \subseteq Range(i.content)
            /\ \E k \in 1..Len(ParseCsv(loc[p].result.val).records) :
                ParseCsv(loc[p].result.val).records[k][4] = i.content

\* The names one after the other with a ';' between each two.
Listed(names) ==
    [i \in 1..(2 * Len(names) - 1) |-> IF i % 2 = 1 THEN names[(i + 1) \div 2] ELSE ";"]

\* The 8 fields the export is to give for an item of the aggregation.
FieldsOf(entry, m) ==
    <<<<FormatDate(entry.timestamp)>>, <<FormatTime(entry.timestamp)>>,
      AsField(m.item.item_type), m.item.content, AsField(m.item.project),
      Listed(Names(m.tags)), Listed(Keys(m.jira_refs)), Listed(Names(m.people))>>

\* The exported text reads back as one record of the right 8 fields per item.
ReadsBack(p) ==
    LET flat == Flat(loc[p].rdOut)
        parsed == ParseCsv(loc[p].result.val)
    IN
    /\ parsed.ok
    /\ Len(parsed.records) = 1 + Len(flat)
    /\ \A k \in 1..Len(flat) : parsed.records[k + 1] = FieldsOf(flat[k].entry, flat[k].m)

\* The values of the item the export writes unescaped can stand where it
\* writes them: no special character in the type, which is written bare, and
\* no double quote in the project and the names, which are written in quotes.
Quotable(m) ==
    /\ m.item.item_type \notin Specials
    /\ m.item.project # Quote
    /\ Quote \notin Range(Names(m.tags)) \cup Range(Keys(m.jira_refs))
                        \cup Range(Names(m.people))

\* C30 as stated: whatever characters the stored values have, the exported
\* text reads back as one record of the right 8 fields per item.
CsvRowsAlwaysReadBack == \A p \in Procs : Exported(p) => ReadsBack(p)

\* C30, amended: the exported text reads back as one record of the right 8
\* fields per item when no item has a double quote, comma or line break in
\* its type or a double quote in its project, tag names, Jira keys or people
\* names; the content, and commas and line breaks in the quoted fields, are
\* read back as they are.
CsvRowsReadBackWhenQuotable ==
    \A p \in Procs :
        (Exported(p) /\ \A k \in 1..Len(Flat(loc[p].rdOut)) : Quotable(Flat(loc[p].rdOut)[k].m))
            => ReadsBack(p)

\* C30 happens: an item with a comma in a Jira key, a line break in a person's
\* name and all three characters in its content was exported and read back.
PunctuatedNamesReadBack ==
    \E p \in Procs :
        /\ Exported(p)
        /\ ReadsBack(p)
        /\ \E k \in 1..Len(Flat(loc[p].rdOut)) :
            LET m == Flat(loc[p].rdOut)[k].m IN
            /\ Comma \in Range(Keys(m.jira_refs))
            /\ LineBreak \in Range(Names(m.people))
            /\ Specials \subseteq Range(m.item.content)

\* A step of the handler of update_entry_item for an item id no row of
\* entry_items has.
UpdatesMissingItem(p) ==
    /\ Updating(p)
    /\ pc[p] # "ret"
    /\ loc'[p].item \notin Ids(entry_items)

AnsweredForMissingItem(p) ==
    Answered(p, "update_entry_item") /\ loc[p].item \notin Ids(entry_items)

\* C24 as stated: update_entry_item for a missing item answers with an error
\* and no step of it changes the store.
UpdateOfMissingItemWritesNothing ==
    /\ [](\A p \in Procs : AnsweredForMissingItem(p) => ~loc[p].result.ok)
    /\ [][\A p \in Procs : UpdatesMissingItem(p) => store' = store]_vars

\* C24, amended: update_entry_item for a missing item answers with an error
\* and changes no row that is there; the one row it can add is the Tag (or,
\* when it has no tags to set, the Person) of the first name of its list,
\* when no row carries that name: get_or_create inserts it, then the link
\* fails and the handler returns; a Jira ref is never added.
UpdateOfMissingItemAddsAtMostOneName ==
    /\ [](\A p \in Procs : AnsweredForMissingItem(p) => ~loc[p].result.ok)
    /\ [][\A p \in Procs :
             UpdatesMissingItem(p) =>
                 /\ <<entries, entry_items, jira_refs, item_tags, item_people, meetings,
                      meeting_attendees, meeting_actions, projects>>' =
                    <<entries, entry_items, jira_refs, item_tags, item_people, meetings,
                      meeting_attendees, meeting_actions, projects>>
                 /\ tags' # tags =>
                        /\ TagInsert(p)
                        /\ loc[p].tags = <<loc[p].name>>
                        /\ tags' = tags \cup {loc'[p].got}
                        /\ people' = people
                 /\ people' # people =>
                        /\ PersonInsert(p)
                        /\ loc[p].tags = <<>>
                        /\ loc[p].people = <<loc[p].name>>
                        /\ people' = people \cup {loc'[p].got}
                 /\ (TagLink(p) \/ PersonLink(p) \/ JiraCreate(p)) =>
                        (pc'[p] = "ret" /\ ~loc'[p].result.ok)
         ]_vars

\* C24 happens: update_entry_item has failed at the link for an item id that
\* never existed, and the tag it made on the way is the only row of the store.
TagLeftByUpdateOfMissingItem ==
    \E p \in Procs :
        /\ FailedWith(p, "update_entry_item", "Failed to link tag")
        /\ nextId["entry_items"] = 1
        /\ "create_tag" \notin workload.cmds
        /\ tags = {loc[p].got}
        /\ item_tags = EmptyBag

\* The lists get_all_entries can answer with for the item: the names of the
\* rows its queries yield, in any of the orders they can yield them in.
ReadableTags(itemId) ==
    {Names(Rows(o)) : o \in Orderings(JoinRows(item_tags, itemId, tags), NoOrder)}
ReadablePeople(itemId) ==
    {Names(Rows(o)) : o \in Orderings(JoinRows(item_people, itemId, people), NoOrder)}
ReadableJira(itemId) ==
    {Keys(o) : o \in Orderings({j \in jira_refs : j.entry_item_id = itemId}, NoOrder)}

Created(p) == Succeeded(p, "create_entry")
ItemsAnswered(p) == {loc[p].result.val.items[k] : k \in 1..Len(loc[p].result.val.items)}

\* C25 as stated: the tags, people and jira lists of every item of a
\* successful create_entry response are lists get_all_entries can answer with
\* for that item right after.
CreateEntryAnswersWithStoredLists ==
    \A p \in Procs :
        Created(p) =>
            \A r \in ItemsAnswered(p) :
                /\ r.tags \in ReadableTags(r.id)
                /\ r.people \in ReadablePeople(r.id)
                /\ r.jira \in ReadableJira(r.id)

\* C25, amended: every item of a successful create_entry response carries
\* the stored type, content and project of its id; its tags and people lists
\* are the request's, and name exactly the tags and people the store links to
\* the item, a repeated name as often as the request repeats it; its jira
\* list holds each key as often as the store holds a ref of the item for it.
CreateEntryAnswersWithStoredNames ==
    \A p \in Procs :
        Created(p) =>
            \A r \in ItemsAnswered(p) :
                /\ ViewOf(r, r.id)
                /\ \A k \in JiraKeyInputs : TimesListed(r.jira, k) = RefsWithKey(r.id, k)
                /\ \A l \in ReadableTags(r.id) : Len(l) <= Len(r.tags)
                /\ \A l \in ReadablePeople(r.id) : Len(l) <= Len(r.people)
                /\ \A l \in ReadableJira(r.id) : Len(l) = Len(r.jira)

\* C25 happens: create_entry has answered with an item whose tags list names
\* the same tag twice, and the store links the item to that tag once.
RepeatedTagAnsweredTwice ==
    \E p \in Procs :
        /\ Created(p)
        /\ \E r \in ItemsAnswered(p) :
            /\ Len(r.tags) = 2
            /\ r.tags[1] = r.tags[2]
            /\ ReadableTags(r.id) = {<<r.tags[1]>>}

\* C26: in every reachable state every meeting action has a null
\* entry_item_id, in the table and in the answer of create_meeting_action.
NoActionReferencesAnItem ==
    /\ \A a \in meeting_actions : a.entry_item_id = NullId
    /\ \A p \in Procs :
        Succeeded(p, "create_meeting_action") => loc[p].result.val.entry_item_id = NullId

\* C26 happens: create_meeting_action has answered while an entry item is in
\* the store, and the action it made is in the table.
ActionMadeBesideAnItem ==
    \E p \in Procs :
        /\ Succeeded(p, "create_meeting_action")
        /\ loc[p].result.val \in meeting_actions
        /\ entry_items # {}

\* The names of the tags other than t that the item is linked to.
NamesBut(itemId, t) ==
    {x.name : x \in {y \in tags : y.id # t /\ y.id \in TargetsOf(item_tags, itemId)}}

\* C28: the step of delete_tag(t) removes the row t of tags and the rows of
\* item_tags that name t, and leaves every other row of every table as it
\* was; after it, the tags get_all_entries_with_items can read for any item
\* are the tags the item had, without t.
DeleteTagRemovesExactlyItsRows ==
    [][\A p \in Procs :
          DeleteTag(p) =>
              LET t == loc'[p].sel IN
              /\ tags' = {x \in tags : x.id # t}
              /\ item_tags' = [q \in {r \in DOMAIN item_tags : r[2] # t} |-> item_tags[q]]
              /\ <<entries, entry_items, jira_refs, people, item_people, meetings,
                   meeting_attendees, meeting_actions, projects>>' =
                 <<entries, entry_items, jira_refs, people, item_people, meetings,
                   meeting_attendees, meeting_actions, projects>>
              /\ \A i \in entry_items :
                  \A l \in ReadableTags(i.id)' :
                      /\ Range(l) = NamesBut(i.id, t)
                      /\ Len(l) = Cardinality(NamesBut(i.id, t))
      ]_vars

\* C28 happens: delete_tag has removed a tag an item carried, and the item
\* is there with another tag.
TagDeletedFromUnderItem ==
    \E p \in Procs :
        /\ Succeeded(p, "delete_tag")
        /\ loc[p].sel \notin Ids(tags)
        /\ \E i \in loc[p].removed :
            /\ i \in Ids(entry_items)
            /\ TargetsOf(item_tags, i) # {}
            /\ loc[p].sel \notin TargetsOf(item_tags, i)


\* C29: the step of delete_entry_item removes no entry and changes none: the
\* table entries is as it was, and every entry keeps its items but the one
\* deleted, which may leave it none; and whenever get_all_entries answers it
\* lists every stored entry once, each with the items it still has.
DeleteEntryItemKeepsEntry ==
    /\ [][\A p \in Procs :
             DeleteEntryItem(p) =>
                 /\ entries' = entries
                 /\ \A e \in entries :
                     ItemsOf(e.id)' = {i \in ItemsOf(e.id) : i.id # loc'[p].item}
         ]_vars
    /\ [](\A p \in Procs :
             Succeeded(p, "get_all_entries") =>
                 LET resp == loc[p].result.val IN
                 /\ ListsOnce(resp, entries)
                 /\ \A k \in 1..Len(resp) :
                     /\ resp[k].id \in Ids(entries)
                     /\ resp[k].timestamp = Row(entries, resp[k].id).timestamp
                     /\ ListsOnce(resp[k].items, ItemsOf(resp[k].id)))

\* C29 happens: the only entry was created with items, delete_entry_item has
\* deleted every one of them (no other command of the session removes rows),
\* and get_all_entries answers with that entry and an empty list of items.
EntryListedAfterItsLastItemWent ==
    \E p \in Procs :
        /\ workload = Pruning
        /\ Succeeded(p, "get_all_entries")
        /\ nextId["entry_items"] > 2
        /\ entry_items = {}
        /\ Len(loc[p].result.val) = 1
        /\ loc[p].result.val[1].id \in Ids(entries)
        /\ loc[p].result.val[1].items = <<>>

\* C27: under a fair lock and statements that return, no command waits for
\* the lock while it holds it, every command that waits for the lock gets
\* it, every command that holds the lock ends, with a result or with an
\* error, idle and without the lock, and the step of its return leaves the
\* lock free.
EveryCommandGetsAndFreesTheLock ==
    /\ [](\A p \in Procs : pc[p] = "lock" => lock # p)
    /\ [][\A p \in Procs : Return(p) => LockFree(lock')]_vars
    /\ \A p \in Procs : (pc[p] = "lock") ~> (lock = p)
    /\ \A p \in Procs : (lock = p) ~> (pc[p] = "idle" /\ lock # p)

\* C27 happens: a command invoked while another was in flight has got the
\* lock and is at its return with an error, still holding the lock, and
\* another command waits for the lock.
ErrorReturnWhileAnotherWaits ==
    \E p, q \in Procs :
        /\ p # q
        /\ pc[p] = "ret" /\ lock = p
        /\ loc[p].overlapped
        /\ ~loc[p].result.ok
        /\ pc[q] = "lock"
====
